---------------------------- MODULE Spec2Model ----------------------------
(***************************************************************************)
(* A model of the chat client of m-ariany/gpt-chat-client.                 *)
(*                                                                         *)
(* The sources hold three revisions of the client:                         *)
(*   "client"  - src/client.go                                             *)
(*   "part002" - src/unnamed/part_002, lines 1-457                         *)
(*   "gpt"     - src/gpt.go, lines 1-359                                   *)
(* together with one retry handler (src/unnamed/part_002, lines 459-527),  *)
(* one model registry (src/unnamed/part_003), one tokenizer wrapper        *)
(* (src/unnamed/part_004) and History.ToString (src/gpt.go, lines 371-377).*)
(* The variable rev says which revision of the client a behaviour runs.    *)
(* Operators without a suffix follow client.go, operators ending in _p2    *)
(* follow part_002 and operators ending in _gpt follow gpt.go; code that   *)
(* is the same text in two revisions is modelled once.                     *)
(*                                                                         *)
(* A string is a sequence of symbols.  A symbol stands for a piece of text *)
(* and Weight gives the number of tokens the tokenizer makes of it.        *)
(***************************************************************************)
EXTENDS Integers, Sequences, FiniteSets

\* ------------------------------------------------------------------ bounds
MaxLen == 3          \* longest transcript drawn as an input of a trim
HugeText == 9000     \* tokens of the text symbol "H" (more than a context window)
MidText == 5000      \* tokens of the text symbol "M" (two of them overflow a window)

NIL == "nil"

\* a Go pointer to an int (*int): the nil pointer, or a pointer to v
NilPtr == <<>>
Ptr(v) == <<v>>
Deref(p) == p[1]

\* ---------------------------------------------------------------- registry
\* getModel: the specs of the model names the model draws; NIL for a name
\* that is not in the registry
KnownModels == {"gpt-4", "gpt-3.5-turbo"}
getModel(m) == IF m \in KnownModels THEN m ELSE NIL

instructionTokenBuffer == 100

ContextLength(spec) ==
    CASE spec = "gpt-4" -> 8192
      [] spec = "gpt-3.5-turbo" -> 16385

MaxInstructionLength(spec) == ContextLength(spec) - instructionTokenBuffer

\* ------------------------------------------------------ instruction length
\* A text as InstructWithLengthFix sees it: len bytes, cut by the tokenizer
\* into tokens of per bytes each (the last one may be shorter).
TokensOf(len, per) == (len + per - 1) \div per

\* InstructWithLengthFix: the loop that cuts diffToken * 3 bytes off the end
\* of the instruction until it fits; instruction[:n] with n < 0 panics
RECURSIVE LengthFixLoop(_, _, _)
LengthFixLoop(len, per, max) ==
    IF TokensOf(len, per) > max
    THEN LET diffToken == TokensOf(len, per) - max
             diffChar == diffToken * 3
         IN  IF len - diffChar < 0
             THEN [len |-> len, panicked |-> TRUE]
             ELSE LengthFixLoop(len - diffChar, per, max)
    ELSE [len |-> len, panicked |-> FALSE]

\* the text symbols of a session are made of tokens of three bytes
SymBytesPerToken == 3
\* tokens of the text symbol "X": the text "H" as InstructWithLengthFix
\* leaves it on a gpt-4 session
FittedText ==
    TokensOf(LengthFixLoop(HugeText * SymBytesPerToken, SymBytesPerToken,
                           MaxInstructionLength("gpt-4")).len,
             SymBytesPerToken)

\* ----------------------------------------------------------------- strings
RoleSystem == "system"
RoleUser == "user"
RoleAssistant == "assistant"
Roles == {RoleSystem, RoleUser, RoleAssistant}

\* text symbols a message content is made of
TextSyms == {"a", "b", "M", "H", "X"}

Message(role, content) == [Role |-> role, Content |-> content, Name |-> <<>>]

\* tiktoken's Encode, as far as the client depends on it: the tokens of a
\* string; one token per symbol except for the heavy text symbols
Weight(sym) ==
    CASE sym = "H" -> HugeText
      [] sym = "M" -> MidText
      [] sym = "X" -> FittedText
      [] OTHER -> 1

RECURSIVE CountTokens(_)
CountTokens(s) ==
    IF s = <<>> THEN 0 ELSE Weight(Head(s)) + CountTokens(Tail(s))

\* json.Marshal of one ChatCompletionMessage: role, content, and the name
\* when it is not empty (omitempty)
MessageToString(m) ==
    <<"{", "role:", m.Role, ",", "content:">> \o m.Content
        \o (IF m.Name = <<>> THEN <<>> ELSE <<",", "name:">> \o m.Name)
        \o <<"}">>

RECURSIVE JoinMessages(_)
JoinMessages(h) ==
    IF h = <<>> THEN <<>>
    ELSE IF Len(h) = 1 THEN MessageToString(h[1])
    ELSE MessageToString(h[1]) \o <<",">> \o JoinMessages(Tail(h))

\* History.ToString: the JSON array of the messages
ToString(h) == <<"[">> \o JoinMessages(h) \o <<"]">>

\* ---------------------------------------------------------------- trimming
\* The result of a piece of code that can panic: the transcript it leaves
\* and whether it panicked.
Ok(h) == [h |-> h, panicked |-> FALSE]
Panic(h) == [h |-> h, panicked |-> TRUE]

\* client.go: the loop of trimHistoryToMatchTokenLimit, entered with
\* len(c.history) >= 2
RECURSIVE TokenLimitLoop(_, _)
TokenLimitLoop(h, limit) ==
    IF CountTokens(ToString(SubSeq(h, 2, Len(h)))) > limit
    THEN IF Len(h) = 2
         THEN SubSeq(h, 1, 1)
         ELSE TokenLimitLoop(<<h[1]>> \o SubSeq(h, 3, Len(h)), limit)
    ELSE h

\* mutant: the oldest message is shaved once and the rest is not re-measured
trimHistoryToMatchTokenLimit_once(h, limit) ==
    IF Len(h) = 1 THEN Ok(h)
    ELSE IF Len(h) = 0 THEN Panic(h)
    ELSE IF CountTokens(ToString(SubSeq(h, 2, Len(h)))) > limit
    THEN Ok(<<h[1]>> \o SubSeq(h, 3, Len(h)))
    ELSE Ok(h)

\* client.go trimHistoryToMatchTokenLimit(limit)
trimHistoryToMatchTokenLimit(h, limit) ==
    IF Len(h) = 1 THEN Ok(h)
    ELSE IF Len(h) = 0 THEN Panic(h)          \* c.history[1:] of an empty slice
    ELSE Ok(TokenLimitLoop(h, limit))

\* part_002: the loop of trimHistoryToMatchTokenLimit; historyAsString is
\* measured once, before the loop, and never again
RECURSIVE TokenLimitLoop_p2(_, _, _)
TokenLimitLoop_p2(h, historyAsString, limit) ==
    IF CountTokens(historyAsString) > limit
    THEN IF Len(h) < 2
         THEN Panic(h)                        \* c.history[2:] out of range
         ELSE TokenLimitLoop_p2(<<h[1]>> \o SubSeq(h, 3, Len(h)),
                                historyAsString, limit)
    ELSE Ok(h)

\* part_002 trimHistoryToMatchTokenLimit(); limit is c.memoryTokenSize
trimHistoryToMatchTokenLimit_p2(h, limit) ==
    TokenLimitLoop_p2(h, ToString(h), limit)

\* mutant: the kept messages are not appended to c.history[:1], the message
\* at position 0 is shaved with the oldest ones
trimHistoryToMatchMessageLimit_noHead(h, memorySize) ==
    IF Len(h) - 1 <= memorySize THEN Ok(h)
    ELSE LET low == 1 + Len(h) - memorySize IN
         IF Len(h) < 1 \/ low < 0 \/ low > Len(h)
         THEN Panic(h)
         ELSE Ok(SubSeq(h, low + 1, Len(h)))

\* trimHistoryToMatchMessageLimit (the same text in the three revisions);
\* memorySize is c.memoryMessageSize
trimHistoryToMatchMessageLimit(h, memorySize) ==
    IF Len(h) - 1 <= memorySize THEN Ok(h)
    ELSE LET low == 1 + Len(h) - memorySize IN
         IF Len(h) < 1 \/ low < 0 \/ low > Len(h)
         THEN Panic(h)                        \* slice bounds out of range
         ELSE Ok(SubSeq(h, 1, 1) \o SubSeq(h, low + 1, Len(h)))


\* client.go trimHistory: the caller's token limit, the caller's message
\* limit, then the context length of the model; getModel(c.model) is nil for
\* an unknown model and calling ContextLength() on it panics
trimHistory(h, cfg) ==
    LET r1 == IF cfg.memoryTokenSize # NilPtr
              THEN trimHistoryToMatchTokenLimit(h, Deref(cfg.memoryTokenSize))
              ELSE Ok(h)
        r2 == IF r1.panicked THEN r1
              ELSE IF cfg.memoryMessageSize # NilPtr
              THEN trimHistoryToMatchMessageLimit(r1.h, Deref(cfg.memoryMessageSize))
              ELSE r1
    IN  IF r2.panicked THEN r2
        ELSE IF getModel(cfg.model) = NIL THEN Panic(r2.h)
        ELSE trimHistoryToMatchTokenLimit(r2.h, ContextLength(getModel(cfg.model)))

\* mutant: the message limit is applied after the token limit
trimHistory_p2_both(h, cfg) ==
    LET r1 == IF cfg.limitMemoryByToken
              THEN trimHistoryToMatchTokenLimit_p2(h, cfg.memoryTokenSize)
              ELSE Ok(h)
    IN  IF r1.panicked \/ ~cfg.limitMemoryByMessage THEN r1
        ELSE trimHistoryToMatchMessageLimit(r1.h, cfg.memoryMessageSize)

\* part_002 (and gpt.go) trimHistory: the token limit has priority over the
\* message limit
trimHistory_p2(h, cfg) ==
    IF cfg.limitMemoryByToken
    THEN trimHistoryToMatchTokenLimit_p2(h, cfg.memoryTokenSize)
    ELSE IF cfg.limitMemoryByMessage
    THEN trimHistoryToMatchMessageLimit(h, cfg.memoryMessageSize)
    ELSE Ok(h)

\* ------------------------------------------------------------------ errors
\* An error value is a sequence of strings; the nil error is the empty one.
NilErr == <<>>
ErrModeration == <<"ErrModeration">>
ErrModerationUserInput == <<"ErrModerationUserInput">>
ErrModerationModelOutput == <<"ErrModerationModelOutput">>
\* fmt.Errorf("... %w", err)
Wrap(msg, e) == <<msg>> \o e

\* the errors the moderation endpoint and the completion endpoint fail with
ErrModerationCall == <<"moderation call failed">>
RemoteErrors == {<<"timeout">>, <<"transport">>}
StreamErrors == {<<"transport">>}
EOF == <<"EOF">>

\* moderateInput: the endpoint's answer is "pass", "flagged" or "error"
\* mutant: a flagged text is not reported
moderateInput_deaf(answer) ==
    CASE answer = "error" -> ErrModerationCall
      [] OTHER -> NilErr

\* moderateInput: ErrModeration when a result is flagged, the wrapped error
\* when the moderation call fails
moderateInput(answer) ==
    CASE answer = "error" -> ErrModerationCall
      [] answer = "flagged" -> ErrModeration
      [] OTHER -> NilErr

\* ----------------------------------------------------------------- billing
\* client.go billConsumedTokens(n)
billConsumedTokens(total, n) == total + n

\* part_002 / gpt.go billConsumedTokens: the switch on c.model; the names
\* the model draws that contain "gpt-3.5-turbo" and "gpt-4"
ContainsGpt35 == {"gpt-3.5-turbo", "gpt-3.5-turbo-0301"}
ContainsGpt4 == {"gpt-4"}
\* mutant: a model outside the two families is counted as gpt-4
tokensPer_assumed(model) ==
    IF model = "gpt-3.5-turbo-0301"
    THEN [known |-> TRUE, tokensPerMessage |-> 4, tokensPerName |-> -1]
    ELSE [known |-> TRUE, tokensPerMessage |-> 3, tokensPerName |-> 1]

tokensPer(model) ==
    IF model = "gpt-3.5-turbo-0301"
    THEN [known |-> TRUE, tokensPerMessage |-> 4, tokensPerName |-> -1]
    ELSE IF model \in ContainsGpt35 \cup ContainsGpt4
    THEN [known |-> TRUE, tokensPerMessage |-> 3, tokensPerName |-> 1]
    ELSE [known |-> FALSE, tokensPerMessage |-> 0, tokensPerName |-> 0]

\* mutant: tokensPerName is left out
RECURSIVE numTokens_noName(_, _)
numTokens_noName(h, per) ==
    IF h = <<>> THEN 0
    ELSE per.tokensPerMessage
         + CountTokens(Head(h).Content)
         + CountTokens(<<Head(h).Role>>)
         + CountTokens(Head(h).Name)
         + numTokens_noName(Tail(h), per)

RECURSIVE numTokens(_, _)
numTokens(h, per) ==
    IF h = <<>> THEN 0
    ELSE per.tokensPerMessage
         + CountTokens(Head(h).Content)
         + CountTokens(<<Head(h).Role>>)
         + CountTokens(Head(h).Name)
         + (IF Head(h).Name # <<>> THEN per.tokensPerName ELSE 0)
         + numTokens(Tail(h), per)

billConsumedTokens_p2(total, h, model) ==
    IF tokensPer(model).known
    THEN total + numTokens(h, tokensPer(model)) + 3
    ELSE total

\* What a commit leaves: the transcript, the counter and (a history value)
\* the billings made, each with the transcript billed and the tokens added.
Session(h, total, bills) == [h |-> h, total |-> total, bills |-> bills]
Bill(by, h, n) == [by |-> by, h |-> h, n |-> n]

\* part_002 / gpt.go: the transcript is billed when the family is known
Billed_p2(h, total, model) ==
    Session(h, billConsumedTokens_p2(total, h, model),
            IF tokensPer(model).known
            THEN <<Bill("numTokens", h, numTokens(h, tokensPer(model)) + 3)>>
            ELSE <<>>)

\* part_002 postResponse(r)
postResponse_p2(h, total, r, c) ==
    IF Len(r) = 0 THEN Session(h, total, <<>>)
    ELSE IF c.memorizeAssistantMessages
    THEN Billed_p2(Append(h, Message(RoleAssistant, r)), total, c.model)
    ELSE Billed_p2(h, total, c.model)

\* gpt.go postResponse(r)
postResponse_gpt(h, total, r, c) ==
    IF c.memorizeAssistantMessages
    THEN Billed_p2(Append(h, Message(RoleAssistant, r)), total, c.model)
    ELSE Billed_p2(h, total, c.model)

\* mutant: an empty text is appended and billed like any other
postStreamResponse_empty(h, total, r) ==
    LET h2 == Append(h, Message(RoleAssistant, r))
        n == CountTokens(ToString(h2))
    IN  Session(h2, billConsumedTokens(total, n), <<Bill("ToString", h2, n)>>)

\* client.go postStreamResponse(r)
postStreamResponse(h, total, r) ==
    IF Len(r) = 0 THEN Session(h, total, <<>>)
    ELSE LET h2 == Append(h, Message(RoleAssistant, r))
             n == CountTokens(ToString(h2))
         IN  Session(h2, billConsumedTokens(total, n), <<Bill("ToString", h2, n)>>)

\* ----------------------------------------------------------------- request
\* client.go newChatCompletionRequest: append the question, trim; the
\* request's Messages are c.history
newChatCompletionRequest(h, question, c) ==
    trimHistory(Append(h, Message(RoleUser, question)), c)

\* part_002 / gpt.go newChatCompletionRequest: trims only when a limit is on
newChatCompletionRequest_p2(h, question, c) ==
    IF c.limitMemoryByMessage \/ c.limitMemoryByToken
    THEN trimHistory_p2(Append(h, Message(RoleUser, question)), c)
    ELSE Ok(Append(h, Message(RoleUser, question)))

\* ------------------------------------------------------------------- state
VARIABLES
    rev,                  \* the revision of the client this behaviour runs
    cfg,                  \* the Client's configuration fields
    history,              \* c.history
    totalConsumedTokens,  \* c.totalConsumedTokens
    pc,                   \* where the running call is; "idle" between calls
    question,             \* the prompt of the running call
    i,                    \* retryHandler.Do: the loop index
    err,                  \* Prompt: the err variable the closure assigns
    response,             \* Prompt: the response variable the closure assigns
    ret,                  \* what the last finished call returned
    request,              \* Messages of the last request built
    ch,                   \* PromptStream: the items the consumer received
    chClosed,             \* PromptStream: close(ch) has run
    item,                 \* PromptStream: the item the producer is sending
    sb,                   \* PromptStream: the strings.Builder
    ctxDone,              \* PromptStream: ctx.Done() is closed
    calls,                \* history variable: invocations of the closure by Do
    failed,               \* history variable: invocations that returned an error
    modIn,                \* history variable: the answer to the input moderation
    remote,               \* history variable: completion calls sent by this call
    lastErr,              \* history variable: the error of the last invocation
    sleeps,               \* history variable: sleeps of backoff in this call
    recvd,                \* history variable: what stream.Recv returned
    h0, t0,               \* history variables: transcript and counter at the call
    hReq,                 \* history variable: transcript after the request was built
    billed,               \* history variable: transcripts billed by this call
    ops,                  \* calls started on the session
    tIn, tArg, tFn, tOut  \* a trim function applied to a drawn transcript

clientVars == <<rev, cfg, history, totalConsumedTokens>>
callVars == <<pc, question, i, err, response, ret, request>>
streamVars == <<ch, chClosed, item, sb, ctxDone>>
ghostVars == <<calls, failed, modIn, remote, lastErr, sleeps, recvd, h0, t0, hReq, billed, ops>>
trimVars == <<tIn, tArg, tFn, tOut>>
sessionVars == <<clientVars, callVars, streamVars, ghostVars>>

\* Sessions and their clones, with the slices' backing arrays, and the
\* counter as the goroutines of one session access it.
VARIABLES
    sessions,             \* the Clients: slice header, counter and configuration
    heap,                 \* the backing arrays of the history slices
    prev,                 \* history variable: the last operation and what it found
    mu,                   \* c.mu: "free" or the goroutine holding it
    wpc,                  \* where the billing goroutine is
    wreg,                 \* the billing goroutine's copy of the counter
    rpc,                  \* where the reading goroutine is
    lastRead,             \* history variable: the last read of the counter
    rh                    \* a retryHandler and the Do loop running on it

cloneVars == <<sessions, heap, prev>>
raceVars == <<mu, wpc, wreg, rpc, lastRead>>
retryVars == <<rh>>
auxVars == <<cloneVars, raceVars, retryVars>>
vars == <<sessionVars, trimVars, auxVars>>

\* -------------------------------------------------- trims on drawn inputs
\* The messages and transcripts the trim functions are applied to: every
\* role with a light, a middle and a heavy content, in every order, with or
\* without a system message at position 0.
TrimContents == {<<"a">>, <<"M">>, <<"H">>}
TrimMessages == {Message(r, c) : r \in Roles, c \in TrimContents}
Transcripts == UNION {[1..n -> TrimMessages] : n \in 0..MaxLen}

TokenLimits == {0, 9, 17, 5010, 8192}
MessageLimits == {0, 1, 2, 3}

\* the configurations trimHistory is applied under
TrimConfigs ==
    [model : {"gpt-4", "foo"},
     memoryTokenSize : {NilPtr, Ptr(9), Ptr(5010)},
     memoryMessageSize : {NilPtr, Ptr(1), Ptr(2)},
     limitMemoryByToken : {FALSE},
     limitMemoryByMessage : {FALSE}]
TrimConfigs_p2 ==
    [model : {"gpt-4"},
     memoryTokenSize : {17, 5020},
     memoryMessageSize : {1, 2},
     limitMemoryByToken : BOOLEAN,
     limitMemoryByMessage : BOOLEAN]

NoConfig == [model |-> "gpt-4"]

NoReturn == [op |-> "none", text |-> <<>>, err |-> NilErr]
NoItem == [Chunk |-> <<>>, Err |-> NilErr]

\* a session on which no call was made yet
IdleSession ==
    /\ history = <<>>
    /\ totalConsumedTokens = 0
    /\ pc = "idle"
    /\ question = <<>>
    /\ i = 0
    /\ err = NilErr
    /\ response = <<>>
    /\ ret = NoReturn
    /\ request = <<>>
    /\ ch = <<>>
    /\ chClosed = FALSE
    /\ item = NoItem
    /\ sb = <<>>
    /\ ctxDone = FALSE
    /\ calls = 0
    /\ failed = 0
    /\ modIn = "none"
    /\ remote = 0
    /\ lastErr = NilErr
    /\ sleeps = 0
    /\ recvd = <<>>
    /\ h0 = <<>>
    /\ t0 = 0
    /\ hReq = <<>>
    /\ billed = <<>>
    /\ ops = 0

\* no session was cloned, no goroutine is at the counter
NoPrev == [op |-> "none", actor |-> 0, config |-> <<>>, views |-> <<>>, n |-> 0]
NoRead == [value |-> 0, racing |-> FALSE, n |-> 0]
NoClones == sessions = <<>> /\ heap = <<>> /\ prev = NoPrev
NoReg == [n |-> 0, v |-> 0]
NoBackoff == [i |-> -1, slept |-> FALSE, panicked |-> FALSE,
              center |-> <<0, 0, 0, 0>>, d |-> <<0, 0, 0, 0>>]
NoRetry ==
    rh = [maxDelay |-> <<0, 0, 0, 0>>, maxRetry |-> 0, pc |-> "new", i |-> 0,
          calls |-> 0, failed |-> 0, sleeps |-> 0, last |-> NoBackoff]
NoRace ==
    /\ mu = "free"
    /\ wpc = "idle" /\ wreg = NoReg
    /\ rpc = "idle" /\ lastRead = NoRead

TrimInit ==
    /\ rev = "client"
    /\ cfg = NoConfig
    /\ IdleSession
    /\ tIn \in Transcripts
    /\ NoClones /\ NoRace /\ NoRetry
    /\ tArg = 0
    /\ tFn = "none"
    /\ tOut = Ok(tIn)

ApplyTokenLimit ==
    /\ tFn = "none"
    /\ \E limit \in TokenLimits :
        /\ tArg' = limit
        /\ tOut' = trimHistoryToMatchTokenLimit(tIn, limit)
    /\ tFn' = "trimHistoryToMatchTokenLimit"
    /\ UNCHANGED <<sessionVars, tIn, auxVars>>

ApplyTokenLimit_p2 ==
    /\ tFn = "none"
    /\ \E limit \in TokenLimits :
        /\ tArg' = limit
        /\ tOut' = trimHistoryToMatchTokenLimit_p2(tIn, limit)
    /\ tFn' = "trimHistoryToMatchTokenLimit_p2"
    /\ UNCHANGED <<sessionVars, tIn, auxVars>>

ApplyMessageLimit ==
    /\ tFn = "none"
    /\ \E memorySize \in MessageLimits :
        /\ tArg' = memorySize
        /\ tOut' = trimHistoryToMatchMessageLimit(tIn, memorySize)
    /\ tFn' = "trimHistoryToMatchMessageLimit"
    /\ UNCHANGED <<sessionVars, tIn, auxVars>>

ApplyTrimHistory ==
    /\ tFn = "none"
    /\ \E c \in TrimConfigs :
        /\ tArg' = c
        /\ tOut' = trimHistory(tIn, c)
    /\ tFn' = "trimHistory"
    /\ UNCHANGED <<sessionVars, tIn, auxVars>>

ApplyTrimHistory_p2 ==
    /\ tFn = "none"
    /\ \E c \in TrimConfigs_p2 :
        /\ tArg' = c
        /\ tOut' = trimHistory_p2(tIn, c)
    /\ tFn' = "trimHistory_p2"
    /\ UNCHANGED <<sessionVars, tIn, auxVars>>

\* the instruction texts InstructWithLengthFix is applied to: their tokens
\* and the bytes of one token
LongText == 13000    \* tokens of the longest instruction drawn
TextTokens == {1, MaxInstructionLength("gpt-4"), MaxInstructionLength("gpt-4") + 1,
               HugeText, LongText}
TextBytesPerToken == {1, 2, 3, 4}

\* InstructWithLengthFix on a gpt-4 session: the loop; tOut.len is the
\* length in bytes of the instruction that would be stored
ApplyLengthFix ==
    /\ tFn = "none"
    /\ \E tokens \in TextTokens, per \in TextBytesPerToken :
        /\ tArg' = [tokens |-> tokens, per |-> per]
        /\ LET r == LengthFixLoop(tokens * per, per, MaxInstructionLength("gpt-4"))
           IN  tOut' = [h |-> tIn, panicked |-> r.panicked, len |-> r.len]
    /\ tFn' = "InstructWithLengthFix"
    /\ UNCHANGED <<sessionVars, tIn, auxVars>>

\* part_002 / gpt.go ExportHistory(includeSystemMsg): c.history, or
\* c.history[1:], which panics on an empty transcript
ExportHistory_p2(h, includeSystemMsg) ==
    IF includeSystemMsg THEN Ok(h)
    ELSE IF Len(h) < 1 THEN Panic(h)             \* slice bounds out of range
    ELSE Ok(SubSeq(h, 2, Len(h)))

ApplyExportHistory ==
    /\ tFn = "none"
    /\ \E includeSystemMsg \in BOOLEAN :
        /\ tArg' = includeSystemMsg
        /\ tOut' = ExportHistory_p2(tIn, includeSystemMsg)
    /\ tFn' = "ExportHistory"
    /\ UNCHANGED <<sessionVars, tIn, auxVars>>

TrimNext ==
    \/ ApplyTokenLimit
    \/ ApplyTokenLimit_p2
    \/ ApplyMessageLimit
    \/ ApplyTrimHistory
    \/ ApplyTrimHistory_p2
    \/ ApplyLengthFix
    \/ ApplyExportHistory

TrimSpec == TrimInit /\ [][TrimNext]_vars

\* ----------------------------------------------------------------- session
MaxOps == 2          \* calls made on a session
clientMaxRetry == 5  \* client.go Prompt: newRetryHandler(time.Second*5, 5)
clientMaxDelay == 5  \* the same call; seconds

Prompts == {<<"a">>, <<"H">>}
Instructions == {<<"b">>, <<"H">>}
Imports ==
    { <<Message(RoleUser, <<"a">>), Message(RoleAssistant, <<"b">>)>>,
      <<Message(RoleSystem, <<"b">>), Message(RoleUser, <<"M">>),
        Message(RoleAssistant, <<"M">>)>>,
      <<[Message(RoleUser, <<"a">>) EXCEPT !.Name = <<"b">>]>>,
      <<>> }
Replies == {<<>>, <<"b">>}
\* the n-th chunk of a remote stream
ChunkAt(n) == IF n % 2 = 1 THEN <<"a">> ELSE <<"b">>
UsageTotals == {7}
Answers == {"pass", "flagged", "error"}

\* what CreateChatCompletion returns: a reply with its Usage.TotalTokens, or
\* an error
RemoteResults(r) ==
    {[ok |-> TRUE, reply |-> x, usage |-> u, e |-> NilErr] :
        x \in Replies, u \in IF r = "client" THEN UsageTotals ELSE {0}}
    \cup {[ok |-> FALSE, reply |-> <<>>, usage |-> 0, e |-> x] : x \in RemoteErrors}

Revisions == {"client", "part002", "gpt"}

\* The configurations NewClient is called with.  client.go has no limit
\* flags, no memorizeAssistantMessages and no retry fields, gpt.go has no
\* moderation and no retry fields: there they are held at one value.  A
\* session has its memory limits set, or one of: the moderation on, the
\* retries on, the replies not memorized, an unknown model.
Features(c) ==
    (IF c.moderatePromptMessage THEN 1 ELSE 0)
    + (IF c.maxRetries \in {2, -1} THEN 1 ELSE 0)
    + (IF c.memorizeAssistantMessages THEN 0 ELSE 1)
    + (IF c.model # "gpt-4" THEN 1 ELSE 0)

Configs(r) ==
    IF r = "client" THEN
        {c \in [model : {"gpt-4", "foo"},
                memoryTokenSize : {NilPtr, Ptr(20)},
                memoryMessageSize : {NilPtr, Ptr(2)},
                limitMemoryByToken : {FALSE},
                limitMemoryByMessage : {FALSE},
                memorizeAssistantMessages : {TRUE},
                moderatePromptMessage : BOOLEAN,
                moderateResponse : BOOLEAN,
                maxRetries : {clientMaxRetry},
                maxRetryDelay : {clientMaxDelay}] :
            /\ c.moderateResponse = c.moderatePromptMessage
            /\ Features(c) <= 1
            /\ Features(c) = 1
                 => c.memoryTokenSize = NilPtr /\ c.memoryMessageSize = NilPtr}
    ELSE
        {c \in [model : {"gpt-4", "foo", "gpt-3.5-turbo-0301"},
                memoryTokenSize : {0, 20},
                memoryMessageSize : {0, 2},
                limitMemoryByToken : BOOLEAN,
                limitMemoryByMessage : BOOLEAN,
                memorizeAssistantMessages : BOOLEAN,
                moderatePromptMessage : IF r = "gpt" THEN {FALSE} ELSE BOOLEAN,
                moderateResponse : IF r = "gpt" THEN {FALSE} ELSE BOOLEAN,
                maxRetries : IF r = "gpt" THEN {0} ELSE {0, 2, -1},
                maxRetryDelay : IF r = "gpt" THEN {0} ELSE {0, 5}] :
            /\ c.limitMemoryByToken = (c.memoryTokenSize # 0)
            /\ c.limitMemoryByMessage = (c.memoryMessageSize # 0)
            /\ c.moderateResponse = c.moderatePromptMessage
            /\ (c.maxRetryDelay # 0) = (c.maxRetries # 0)
            /\ Features(c) <= 1
            /\ Features(c) = 1
                 => ~c.limitMemoryByToken /\ ~c.limitMemoryByMessage}

Init ==
    /\ rev \in Revisions
    /\ cfg \in Configs(rev)
    /\ IdleSession
    /\ NoClones /\ NoRace /\ NoRetry
    /\ tIn = <<>>
    /\ tArg = 0
    /\ tFn = "none"
    /\ tOut = Ok(<<>>)

\* a call starts: the history variables of the previous call are reset
StartCall ==
    /\ pc = "idle"
    /\ ops < MaxOps
    /\ ops' = ops + 1
    /\ h0' = history
    /\ t0' = totalConsumedTokens
    /\ calls' = 0
    /\ failed' = 0
    /\ remote' = 0
    /\ lastErr' = NilErr
    /\ sleeps' = 0
    /\ recvd' = <<>>
    /\ request' = <<>>
    /\ ch' = <<>>
    /\ chClosed' = FALSE
    /\ item' = NoItem
    /\ sb' = <<>>
    /\ ctxDone' = FALSE

Return(op, text, e) == [op |-> op, text |-> text, err |-> e]

\* mutant: the system message is always appended
SetInstruction_append(h, instruction) ==
    Append(h, Message(RoleSystem, instruction))

\* the system message is inserted at, or written over, position 0
SetInstruction(h, instruction) ==
    IF Len(h) = 0
    THEN <<Message(RoleSystem, instruction)>>
    ELSE [h EXCEPT ![1] = Message(RoleSystem, instruction)]

\* Instruct(instruction): client.go checks the length against the model's
\* MaxInstructionLength; part_002 and gpt.go set the message
Instruct ==
    /\ StartCall
    /\ \E instruction \in Instructions :
        /\ question' = instruction
        /\ IF rev = "client"
           THEN IF getModel(cfg.model) = NIL
                THEN /\ pc' = "panicked"
                     /\ ret' = NoReturn
                     /\ history' = history
                ELSE IF CountTokens(instruction)
                            > MaxInstructionLength(getModel(cfg.model))
                THEN /\ pc' = "idle"
                     /\ ret' = Return("Instruct", <<>>, <<"max length of instruction">>)
                     /\ history' = history
                ELSE /\ pc' = "idle"
                     /\ ret' = Return("Instruct", <<>>, NilErr)
                     /\ history' = SetInstruction(history, instruction)
           ELSE /\ pc' = "idle"
                /\ ret' = Return("Instruct", <<>>, NilErr)
                /\ history' = SetInstruction(history, instruction)
    /\ hReq' = history'
    /\ billed' = <<>>
    /\ modIn' = "none"
    /\ UNCHANGED <<rev, cfg, totalConsumedTokens, i, err, response, trimVars, auxVars>>

\* InstructWithLengthFix(instruction), client.go: the instruction is cut
\* until it fits, then set as Instruct sets it
InstructWithLengthFix ==
    /\ StartCall
    /\ rev = "client"
    /\ \E instruction \in Instructions :
        /\ question' = instruction
        /\ IF getModel(cfg.model) = NIL
           THEN /\ pc' = "panicked"
                /\ ret' = NoReturn
                /\ history' = history
           ELSE LET len == CountTokens(instruction) * SymBytesPerToken
                    r == LengthFixLoop(len, SymBytesPerToken,
                                       MaxInstructionLength(getModel(cfg.model)))
                    fitted == IF r.len = len THEN instruction ELSE <<"X">>
                IN  IF r.panicked
                    THEN /\ pc' = "panicked"
                         /\ ret' = NoReturn
                         /\ history' = history
                    ELSE /\ pc' = "idle"
                         /\ ret' = Return("InstructWithLengthFix", <<>>, NilErr)
                         /\ history' = SetInstruction(history, fitted)
    /\ hReq' = history'
    /\ billed' = <<>>
    /\ modIn' = "none"
    /\ UNCHANGED <<rev, cfg, totalConsumedTokens, i, err, response, trimVars, auxVars>>

\* ImportHistory(history): append, then trimHistory
ImportHistory ==
    /\ StartCall
    /\ \E imported \in Imports :
        LET r == IF rev = "client"
                 THEN trimHistory(history \o imported, cfg)
                 ELSE trimHistory_p2(history \o imported, cfg)
        IN  /\ history' = r.h
            /\ pc' = IF r.panicked THEN "panicked" ELSE "idle"
            /\ ret' = IF r.panicked THEN NoReturn
                      ELSE Return("ImportHistory", <<>>, NilErr)
    /\ question' = <<>>
    /\ hReq' = history'
    /\ billed' = <<>>
    /\ modIn' = "none"
    /\ UNCHANGED <<rev, cfg, totalConsumedTokens, i, err, response, trimVars, auxVars>>

\* newRetryHandler(maxDelay, maxRetry) as Prompt calls it
maxRetry == IF rev = "client" THEN clientMaxRetry ELSE cfg.maxRetries
maxDelay == IF rev = "client" THEN clientMaxDelay ELSE cfg.maxRetryDelay

\* Prompt, up to the call of retryHandler.Do: the input moderation
PromptBegin ==
    /\ StartCall
    /\ rev \in {"client", "part002"}
    /\ \E prompt \in Prompts,
          answer \in IF cfg.moderatePromptMessage THEN Answers ELSE {"pass"} :
        /\ question' = prompt
        /\ modIn' = IF cfg.moderatePromptMessage THEN answer ELSE "none"
        /\ LET e == IF cfg.moderatePromptMessage
                    THEN moderateInput(answer) ELSE NilErr
           IN  IF e = ErrModeration
               THEN /\ pc' = "idle"
                    /\ ret' = Return("Prompt", <<>>, ErrModerationUserInput)
               ELSE IF e # NilErr
               THEN /\ pc' = "idle"
                    /\ ret' = Return("Prompt", <<>>, e)
               ELSE /\ pc' = IF 0 < maxRetry + 1 THEN "do" ELSE "afterDo"
                    /\ ret' = NoReturn
    /\ i' = 0
    /\ err' = NilErr
    /\ response' = <<>>
    /\ hReq' = history
    /\ billed' = <<>>
    /\ UNCHANGED <<rev, cfg, history, totalConsumedTokens, trimVars, auxVars>>

\* mutant: the loop runs while i < maxRetry, one invocation fewer
DoAfter_short(e, idx, n) ==
    IF e = NilErr THEN [pc |-> "afterDo", i |-> idx]
    ELSE IF idx < n - 1 THEN [pc |-> "backoff", i |-> idx]
    ELSE [pc |-> "afterDo", i |-> idx + 1]

\* mutant: backoff is called after the last invocation too
DoAfter_sleepLast(e, idx, n) ==
    IF e = NilErr THEN [pc |-> "afterDo", i |-> idx]
    ELSE [pc |-> "backoff", i |-> idx]

\* retryHandler.Do after an invocation at index idx returned e: return on
\* nil, back off when idx < maxRetry, else i++ ends the loop
DoAfter(e, idx, n) ==
    IF e = NilErr THEN [pc |-> "afterDo", i |-> idx]
    ELSE IF idx < n THEN [pc |-> "backoff", i |-> idx]
    ELSE [pc |-> "afterDo", i |-> idx + 1]

\* retryHandler.Do: one invocation of the closure, which runs c.prompt: the
\* request is built (the question appended, the transcript trimmed), the
\* completion call is made and, on success, the exchange is posted
Invoke ==
    /\ pc = "do"
    /\ calls' = calls + 1
    /\ LET r == IF rev = "client"
                THEN newChatCompletionRequest(history, question, cfg)
                ELSE newChatCompletionRequest_p2(history, question, cfg)
       IN  IF r.panicked
           THEN /\ pc' = "panicked"
                /\ history' = r.h
                /\ UNCHANGED <<totalConsumedTokens, i, err, response, request,
                               remote, lastErr, hReq, billed, failed>>
           ELSE /\ request' = r.h
                /\ hReq' = r.h
                /\ remote' = remote + 1
                /\ \E res \in RemoteResults(rev) :
                    IF res.ok
                    THEN LET s == IF rev = "client"
                                  THEN Session(r.h,
                                         billConsumedTokens(totalConsumedTokens, res.usage),
                                         <<Bill("usage", r.h, res.usage)>>)
                                  ELSE postResponse_p2(r.h, totalConsumedTokens,
                                                       res.reply, cfg)
                         IN  /\ history' = s.h
                             /\ totalConsumedTokens' = s.total
                             /\ billed' = billed \o s.bills
                             /\ response' = res.reply
                             /\ err' = NilErr
                             /\ lastErr' = NilErr
                             /\ failed' = failed
                             /\ pc' = DoAfter(NilErr, i, maxRetry).pc
                             /\ i' = DoAfter(NilErr, i, maxRetry).i
                    ELSE /\ history' = r.h
                         /\ response' = <<>>
                         /\ err' = Wrap("failed to create chat completion", res.e)
                         /\ lastErr' = err'
                         /\ failed' = failed + 1
                         /\ pc' = DoAfter(err', i, maxRetry).pc
                         /\ i' = DoAfter(err', i, maxRetry).i
                         /\ UNCHANGED <<totalConsumedTokens, billed>>
    /\ UNCHANGED <<rev, cfg, question, ret, streamVars, modIn, sleeps, recvd, h0,
                   t0, ops, trimVars, auxVars>>

\* retryHandler.backoff(i), then the loop's i++: no sleep when maxDelay is 0
Backoff ==
    /\ pc = "backoff"
    /\ sleeps' = IF maxDelay = 0 THEN sleeps ELSE sleeps + 1
    /\ i' = i + 1
    /\ pc' = "do"
    /\ UNCHANGED <<clientVars, question, err, response, ret, request, streamVars,
                   calls, failed, modIn, remote, lastErr, recvd, h0, t0, hReq,
                   billed, ops, trimVars, auxVars>>

\* mutant: the error of the closure is dropped
PromptReturn_lenient(e, resp, answer, c) == Return("Prompt", resp, NilErr)

\* Prompt after retryHandler.Do: what it returns for the closure's err and
\* response and the moderation's answer on the response
PromptReturn(e, resp, answer, c) ==
    IF e # NilErr THEN Return("Prompt", <<>>, e)
    ELSE IF c.moderateResponse /\ moderateInput(answer) = ErrModeration
    THEN Return("Prompt", <<>>, ErrModerationModelOutput)
    ELSE IF c.moderateResponse /\ moderateInput(answer) # NilErr
    THEN Return("Prompt", <<>>, moderateInput(answer))
    ELSE Return("Prompt", resp, NilErr)

\* Prompt, after retryHandler.Do returned: the error check, the output
\* moderation and the return
PromptEnd ==
    /\ pc = "afterDo"
    /\ \E answer \in IF err = NilErr /\ cfg.moderateResponse THEN Answers ELSE {"pass"} :
        ret' = PromptReturn(err, response, answer, cfg)
    /\ pc' = "idle"
    /\ UNCHANGED <<clientVars, question, i, err, response, request, streamVars,
                   ghostVars, trimVars, auxVars>>

\* ------------------------------------------------------------ PromptStream
MaxChunks == 2       \* chunks one remote stream delivers

ChunkItem(chunk) == [Chunk |-> chunk, Err |-> NilErr]
ErrItem(e) == [Chunk |-> <<>>, Err |-> e]

\* what stream.Recv returns: a chunk, io.EOF or a transport error
RecvResults(n) ==
    (IF n < MaxChunks THEN {ChunkItem(ChunkAt(n + 1))} ELSE {})
    \cup {ErrItem(EOF)} \cup {ErrItem(e) : e \in StreamErrors}

\* PromptStream: the producer goroutine up to CreateChatCompletionStream:
\* the input moderation (client.go, part_002) and the request
StreamBegin ==
    /\ StartCall
    /\ \E prompt \in Prompts,
          answer \in IF cfg.moderatePromptMessage THEN Answers ELSE {"pass"} :
        /\ question' = prompt
        /\ modIn' = IF cfg.moderatePromptMessage THEN answer ELSE "none"
        /\ LET e == IF cfg.moderatePromptMessage
                    THEN moderateInput(answer) ELSE NilErr
               r == IF rev = "client"
                    THEN newChatCompletionRequest(history, prompt, cfg)
                    ELSE newChatCompletionRequest_p2(history, prompt, cfg)
           IN  IF e # NilErr
               THEN /\ item' = ErrItem(IF e = ErrModeration
                                       THEN ErrModerationUserInput ELSE e)
                    /\ pc' = "s_sendfinal"
                    /\ UNCHANGED <<history, hReq>>
               ELSE /\ item' = NoItem
                    /\ history' = r.h
                    /\ hReq' = r.h
                    /\ pc' = IF r.panicked THEN "panicked" ELSE "s_create"
    /\ ret' = NoReturn
    /\ billed' = <<>>
    /\ UNCHANGED <<rev, cfg, totalConsumedTokens, i, err, response, trimVars, auxVars>>

\* CreateChatCompletionStream: the stream, or an error that is sent to the
\* consumer before the goroutine returns
StreamCreate ==
    /\ pc = "s_create"
    /\ request' = history
    /\ remote' = remote + 1
    /\ \/ /\ pc' = "s_recv"
          /\ item' = NoItem
       \/ \E e \in StreamErrors :
          /\ item' = ErrItem(Wrap("failed to create chat completion stream", e))
          /\ pc' = "s_sendfinal"
    /\ UNCHANGED <<clientVars, question, i, err, response, ret, ch, chClosed, sb,
                   ctxDone, calls, failed, modIn, lastErr, sleeps, recvd, h0, t0,
                   hReq, billed, ops, trimVars, auxVars>>

\* stream.Recv: gpt.go leaves the loop on io.EOF without sending anything;
\* client.go and part_002 send every error, io.EOF too, to the consumer
StreamRecv ==
    /\ pc = "s_recv"
    /\ \E x \in RecvResults(Len(recvd)) :
        /\ recvd' = Append(recvd, x)
        /\ IF x.Err = NilErr
           THEN item' = x /\ pc' = "s_forward"
           ELSE IF x.Err = EOF /\ rev = "gpt"
           THEN item' = NoItem /\ pc' = "s_post"
           ELSE item' = x /\ pc' = "s_senderr"
    /\ UNCHANGED <<clientVars, question, i, err, response, ret, request, ch,
                   chClosed, sb, ctxDone, calls, failed, modIn, remote, lastErr,
                   sleeps, h0, t0, hReq, billed, ops, trimVars, auxVars>>

\* mutant: the item overtakes the items sent before it
StreamDeliver_overtaking ==
    /\ pc \in {"s_forward", "s_senderr", "s_sendfinal"}
    /\ ch' = <<item>> \o ch
    /\ sb' = IF pc = "s_forward" THEN sb \o item.Chunk ELSE sb
    /\ pc' = CASE pc = "s_forward" -> "s_recv"
               [] pc = "s_senderr" -> "s_post"
               [] pc = "s_sendfinal" -> "s_close"
    /\ item' = NoItem
    /\ UNCHANGED <<clientVars, question, i, err, response, ret, request, chClosed,
                   ctxDone, ghostVars, trimVars, auxVars>>

\* the consumer receives the item the producer is sending; a chunk is then
\* written to the builder
StreamDeliver ==
    /\ pc \in {"s_forward", "s_senderr", "s_sendfinal"}
    /\ ch' = Append(ch, item)
    /\ sb' = IF pc = "s_forward" THEN sb \o item.Chunk ELSE sb
    /\ pc' = CASE pc = "s_forward" -> "s_recv"
               [] pc = "s_senderr" -> "s_post"
               [] pc = "s_sendfinal" -> "s_close"
    /\ item' = NoItem
    /\ UNCHANGED <<clientVars, question, i, err, response, ret, request, chClosed,
                   ctxDone, ghostVars, trimVars, auxVars>>

\* the context of the call ends (its timeout, or the caller's cancel) while
\* the producer waits in the select
CtxDone ==
    /\ pc = "s_forward"
    /\ rev # "gpt"
    /\ ~ctxDone
    /\ ctxDone' = TRUE
    /\ UNCHANGED <<clientVars, callVars, ch, chClosed, item, sb, ghostVars, trimVars, auxVars>>

\* mutant: a chunk that is not sent is not written to the builder either
StreamDrop_lost ==
    /\ pc = "s_forward"
    /\ rev = "gpt" \/ ctxDone
    /\ item' = NoItem
    /\ pc' = "s_recv"
    /\ UNCHANGED <<clientVars, question, i, err, response, ret, request, ch,
                   chClosed, sb, ctxDone, ghostVars, trimVars, auxVars>>

\* the select's other case: ctx.Done() in client.go and part_002, the five
\* second timer in gpt.go; the chunk is not sent but is written to the builder
StreamDrop ==
    /\ pc = "s_forward"
    /\ rev = "gpt" \/ ctxDone
    /\ sb' = sb \o item.Chunk
    /\ item' = NoItem
    /\ pc' = "s_recv"
    /\ UNCHANGED <<clientVars, question, i, err, response, ret, request, ch,
                   chClosed, ctxDone, ghostVars, trimVars, auxVars>>

\* mutant: the channel is closed before the text is posted
StreamPost_closing ==
    /\ pc = "s_post"
    /\ LET s == CASE rev = "client" ->
                       postStreamResponse(history, totalConsumedTokens, sb)
                  [] rev = "part002" ->
                       postResponse_p2(history, totalConsumedTokens, sb, cfg)
                  [] rev = "gpt" ->
                       IF Len(sb) = 0
                       THEN Session(history, totalConsumedTokens, <<>>)
                       ELSE postResponse_gpt(history, totalConsumedTokens, sb, cfg)
       IN  /\ history' = s.h
           /\ totalConsumedTokens' = s.total
           /\ billed' = billed \o s.bills
    /\ chClosed' = TRUE
    /\ pc' = "s_close"
    /\ UNCHANGED <<rev, cfg, question, i, err, response, ret, request, ch, item,
                   sb, ctxDone, calls, failed, modIn, remote, lastErr, sleeps,
                   recvd, h0, t0, hReq, ops, trimVars, auxVars>>

\* after the loop: the accumulated text is posted
StreamPost ==
    /\ pc = "s_post"
    /\ LET s == CASE rev = "client" ->
                       postStreamResponse(history, totalConsumedTokens, sb)
                  [] rev = "part002" ->
                       postResponse_p2(history, totalConsumedTokens, sb, cfg)
                  [] rev = "gpt" ->
                       IF Len(sb) = 0
                       THEN Session(history, totalConsumedTokens, <<>>)
                       ELSE postResponse_gpt(history, totalConsumedTokens, sb, cfg)
       IN  /\ history' = s.h
           /\ totalConsumedTokens' = s.total
           /\ billed' = billed \o s.bills
    /\ pc' = "s_close"
    /\ UNCHANGED <<rev, cfg, question, i, err, response, ret, request, streamVars,
                   calls, failed, modIn, remote, lastErr, sleeps, recvd, h0, t0,
                   hReq, ops, trimVars, auxVars>>

\* the deferred close(ch): the goroutine is over
StreamClose ==
    /\ pc = "s_close"
    /\ chClosed' = TRUE
    /\ pc' = "idle"
    /\ ret' = Return("PromptStream", <<>>, NilErr)
    /\ UNCHANGED <<clientVars, question, i, err, response, request, ch, item, sb,
                   ctxDone, ghostVars, trimVars, auxVars>>

Next ==
    \/ Instruct
    \/ InstructWithLengthFix
    \/ ImportHistory
    \/ PromptBegin
    \/ Invoke
    \/ Backoff
    \/ PromptEnd
    \/ StreamBegin
    \/ StreamCreate
    \/ StreamRecv
    \/ StreamDeliver
    \/ CtxDone
    \/ StreamDrop
    \/ StreamPost
    \/ StreamClose

Spec == Init /\ [][Next]_vars

\* The producer goroutine is scheduled: each of its steps that waits for
\* nothing but the remote end is taken.  The remote call and stream.Recv
\* return (the context of the call has the timeout c.apiTimeout), the
\* context ends, the other case of the select is taken once it is ready
\* (ctx.Done(), or gpt.go's five second timer).  Nothing makes the consumer
\* receive: there is no fairness on StreamDeliver.
Fairness ==
    /\ WF_vars(StreamCreate)
    /\ WF_vars(StreamRecv)
    /\ WF_vars(CtxDone)
    /\ WF_vars(StreamDrop)
    /\ WF_vars(StreamPost)
    /\ WF_vars(StreamClose)

LiveSpec == Init /\ [][Next]_vars /\ Fairness

\* ------------------------------------------------------------------ clones
MaxCloneOps == 4     \* operations made on a session and its clones

\* A float is written as a string; a time.Duration is a number of seconds;
\* a *float32 or *bool is a pointer as memoryTokenSize is.
\* the ClientConfig of client.go (part_006) with nothing set
ZeroConfig ==
    [Model |-> "", ApiTimeout |-> 0, Temperature |-> NilPtr, TopP |-> NilPtr,
     MaxTokens |-> 0, PresencePenalty |-> "0", FrequencyPenalty |-> "0",
     LogitBias |-> <<>>, MemoryMessageSize |-> NilPtr,
     MemoryTokenSize |-> NilPtr, ModeratePromptMessage |-> NilPtr,
     ModerateResponse |-> NilPtr]

\* the ClientConfig of part_002 (types.go) with nothing set
ZeroConfig_p2 ==
    [Model |-> "", ApiTimeout |-> 0, Temperature |-> NilPtr,
     LimitMemoryByToken |-> NilPtr, LimitMemoryByMessage |-> NilPtr,
     MemoryTokenSize |-> NilPtr, MemoryMessageSize |-> NilPtr,
     MemorizeAssistantMessages |-> NilPtr, ModeratePromptMessage |-> NilPtr,
     ModerateResponse |-> NilPtr, MaxRetryDelay |-> NilPtr, MaxRetries |-> NilPtr]

\* the configuration fields of the Client NewClient builds before applyConfig
NewFields ==
    [model |-> "", apiTimeout |-> 0, temperature |-> "0", topP |-> "0",
     maxTokens |-> 0, presencePenalty |-> "0", frequencyPenalty |-> "0",
     logitBias |-> <<>>, memoryTokenSize |-> NilPtr,
     memoryMessageSize |-> NilPtr, moderatePromptMessage |-> FALSE,
     moderateResponse |-> FALSE]

NewFields_p2 ==
    [model |-> "", apiTimeout |-> 0, temperature |-> "0",
     limitMemoryByToken |-> FALSE, limitMemoryByMessage |-> FALSE,
     memoryTokenSize |-> 0, memoryMessageSize |-> 0,
     memorizeAssistantMessages |-> TRUE, moderatePromptMessage |-> FALSE,
     moderateResponse |-> FALSE, maxRetryDelay |-> 0, maxRetries |-> 0]

\* p if the pointer is nil, else what it points to
OrElse(ptr, p) == IF ptr = NilPtr THEN p ELSE Deref(ptr)

\* applyConfig: a temperature of 0 is stored as 0.0000001
Temperature(c, config) ==
    IF config.Temperature = NilPtr THEN c.temperature
    ELSE IF Deref(config.Temperature) = "0" THEN "0.0000001"
    ELSE Deref(config.Temperature)

\* client.go applyConfig(config, normalize)
applyConfig(c, config, normalize) ==
    [model |-> IF config.Model # "" THEN config.Model
               ELSE IF normalize THEN "gpt-3.5-turbo" ELSE c.model,
     apiTimeout |-> IF config.ApiTimeout > 0 THEN config.ApiTimeout
                    ELSE IF normalize THEN 120 ELSE c.apiTimeout,
     temperature |-> Temperature(c, config),
     topP |-> IF config.TopP # NilPtr THEN Deref(config.TopP)
              ELSE IF normalize THEN "1" ELSE c.topP,
     maxTokens |-> config.MaxTokens,
     presencePenalty |-> config.PresencePenalty,
     frequencyPenalty |-> config.FrequencyPenalty,
     logitBias |-> IF Len(config.LogitBias) > 0 THEN config.LogitBias
                   ELSE IF normalize THEN <<>> ELSE c.logitBias,
     memoryMessageSize |-> IF config.MemoryMessageSize # NilPtr
                           THEN config.MemoryMessageSize ELSE c.memoryMessageSize,
     memoryTokenSize |-> IF config.MemoryTokenSize # NilPtr
                         THEN config.MemoryTokenSize ELSE c.memoryTokenSize,
     moderatePromptMessage |->
         OrElse(config.ModeratePromptMessage, c.moderatePromptMessage),
     moderateResponse |-> OrElse(config.ModerateResponse, c.moderateResponse)]

\* part_002 applyConfig(config, normalize)
applyConfig_p2(c, config, normalize) ==
    [model |-> IF config.Model # "" THEN config.Model
               ELSE IF normalize THEN "gpt-3.5-turbo" ELSE c.model,
     apiTimeout |-> IF config.ApiTimeout > 0 THEN config.ApiTimeout
                    ELSE IF normalize THEN 120 ELSE c.apiTimeout,
     temperature |-> Temperature(c, config),
     limitMemoryByMessage |->
         OrElse(config.LimitMemoryByMessage, c.limitMemoryByMessage),
     limitMemoryByToken |->
         OrElse(config.LimitMemoryByToken, c.limitMemoryByToken),
     memoryMessageSize |-> OrElse(config.MemoryMessageSize, c.memoryMessageSize),
     memoryTokenSize |-> OrElse(config.MemoryTokenSize, c.memoryTokenSize),
     memorizeAssistantMessages |->
         OrElse(config.MemorizeAssistantMessages, c.memorizeAssistantMessages),
     moderatePromptMessage |->
         OrElse(config.ModeratePromptMessage, c.moderatePromptMessage),
     moderateResponse |-> OrElse(config.ModerateResponse, c.moderateResponse),
     maxRetries |-> OrElse(config.MaxRetries, c.maxRetries),
     maxRetryDelay |-> OrElse(config.MaxRetryDelay, c.maxRetryDelay)]

\* the configuration fields Clone copies: client.go leaves maxTokens out
CloneFields(c) == [c EXCEPT !.maxTokens = 0]
\* part_002 Clone copies every configuration field
CloneFields_p2(c) == c

\* the configurations NewClient and CloneWithConfig are called with
ClientConfigs ==
    { ZeroConfig,
      [ZeroConfig EXCEPT !.Model = "gpt-4", !.Temperature = Ptr("0")],
      [Model |-> "gpt-4", ApiTimeout |-> 30, Temperature |-> Ptr("0.7"),
       TopP |-> Ptr("0.9"), MaxTokens |-> 100, PresencePenalty |-> "0.5",
       FrequencyPenalty |-> "0.5", LogitBias |-> <<"t">>,
       MemoryMessageSize |-> Ptr(2), MemoryTokenSize |-> Ptr(20),
       ModeratePromptMessage |-> Ptr(TRUE), ModerateResponse |-> Ptr(TRUE)] }

ClientConfigs_p2 ==
    { ZeroConfig_p2,
      [ZeroConfig_p2 EXCEPT !.Model = "gpt-4", !.Temperature = Ptr("0")],
      [Model |-> "gpt-4", ApiTimeout |-> 30, Temperature |-> Ptr("0.7"),
       LimitMemoryByToken |-> Ptr(TRUE), LimitMemoryByMessage |-> Ptr(TRUE),
       MemoryTokenSize |-> Ptr(20), MemoryMessageSize |-> Ptr(2),
       MemorizeAssistantMessages |-> Ptr(FALSE),
       ModeratePromptMessage |-> Ptr(TRUE), ModerateResponse |-> Ptr(TRUE),
       MaxRetryDelay |-> Ptr(5), MaxRetries |-> Ptr(2)] }

\* A Client: its history slice (the backing array, 0 for none, and the
\* length), its counter and its configuration fields.
ClientOf(arr, len, total, fields) ==
    [arr |-> arr, len |-> len, total |-> total, fields |-> fields]

\* the zero ChatCompletionMessage
ZeroMessage == [Role |-> "", Content |-> <<>>, Name |-> <<>>]

\* c.history as a value, and cap(c.history)
View(hp, c) == IF c.arr = 0 THEN <<>> ELSE SubSeq(hp[c.arr], 1, c.len)
Cap(hp, c) == IF c.arr = 0 THEN 0 ELSE Len(hp[c.arr])

\* append(c.history, m): in place when the capacity allows it, else into a
\* new array of twice the capacity
GoAppend(hp, c, m) ==
    IF c.len < Cap(hp, c)
    THEN [heap |-> [hp EXCEPT ![c.arr][c.len + 1] = m],
          arr |-> c.arr, len |-> c.len + 1]
    ELSE LET newcap == IF Cap(hp, c) = 0 THEN 1 ELSE 2 * Cap(hp, c)
             cells == View(hp, c) \o <<m>>
                        \o [n \in 1..(newcap - c.len - 1) |-> ZeroMessage]
         IN  [heap |-> Append(hp, cells), arr |-> Len(hp) + 1, len |-> c.len + 1]

\* what an operation found: the transcript and the counter of every Client
Views == [n \in 1..Len(sessions) |->
            [h |-> View(heap, sessions[n]), total |-> sessions[n].total,
             fields |-> sessions[n].fields]]

Acted(op, actor, config) ==
    prev' = [op |-> op, actor |-> actor, config |-> config, views |-> Views,
             n |-> prev.n + 1]

CloneInit ==
    /\ rev \in {"client", "part002"}
    /\ cfg = NoConfig
    /\ IdleSession
    /\ tIn = <<>> /\ tArg = 0 /\ tFn = "none" /\ tOut = Ok(<<>>)
    /\ NoRace /\ NoRetry
    /\ \E cnf \in IF rev = "client" THEN ClientConfigs ELSE ClientConfigs_p2 :
        sessions = <<ClientOf(0, 0, 0,
                        IF rev = "client"
                        THEN applyConfig(NewFields, cnf, TRUE)
                        ELSE applyConfig_p2(NewFields_p2, cnf, TRUE))>>
    /\ heap = <<>>
    /\ prev = NoPrev

\* mutant: the clone's history is the source's slice cut to length 0
CloneHistory_shared(c) == [arr |-> c.arr, len |-> 0]

\* Clone: history: History{}
CloneHistory(c) == [arr |-> 0, len |-> 0]

\* Clone(): a Client with a new history, the counter left out and the
\* configuration fields copied
CloneOf(c) ==
    ClientOf(CloneHistory(c).arr, CloneHistory(c).len, 0,
             IF rev = "client" THEN CloneFields(c.fields)
             ELSE CloneFields_p2(c.fields))

Clone ==
    /\ prev.n < MaxCloneOps
    /\ \E k \in 1..Len(sessions) :
        /\ sessions' = Append(sessions, CloneOf(sessions[k]))
        /\ Acted("Clone", k, <<>>)
    /\ UNCHANGED <<sessionVars, trimVars, heap, raceVars, retryVars>>

\* CloneWithConfig(config): Clone, then applyConfig(config, false)
CloneWithConfig ==
    /\ prev.n < MaxCloneOps
    /\ \E k \in 1..Len(sessions),
          config \in IF rev = "client" THEN ClientConfigs ELSE ClientConfigs_p2 :
        LET cc == CloneOf(sessions[k])
        IN  /\ sessions' = Append(sessions,
                  [cc EXCEPT !.fields =
                      IF rev = "client" THEN applyConfig(cc.fields, config, FALSE)
                      ELSE applyConfig_p2(cc.fields, config, FALSE)])
            /\ Acted("CloneWithConfig", k, config)
    /\ UNCHANGED <<sessionVars, trimVars, heap, raceVars, retryVars>>

\* the messages appended to a transcript by Prompt and PromptStream
CloneMessages == {Message(RoleUser, <<"a">>), Message(RoleAssistant, <<"b">>)}

\* Instruct on the k-th Client: append to an empty history, else write
\* c.history[0]
InstructClient ==
    /\ prev.n < MaxCloneOps
    /\ \E k \in 1..Len(sessions) :
        LET c == sessions[k]
            m == Message(RoleSystem, <<"b">>)
            r == GoAppend(heap, c, m)
        IN  /\ IF c.len = 0
               THEN /\ heap' = r.heap
                    /\ sessions' = [sessions EXCEPT ![k].arr = r.arr,
                                                    ![k].len = r.len]
               ELSE /\ heap' = [heap EXCEPT ![c.arr][1] = m]
                    /\ sessions' = sessions
            /\ Acted("Instruct", k, <<>>)
    /\ UNCHANGED <<sessionVars, trimVars, raceVars, retryVars>>

\* c.history = append(c.history, m) on the k-th Client, as
\* newChatCompletionRequest and postStreamResponse do
AppendMessage ==
    /\ prev.n < MaxCloneOps
    /\ \E k \in 1..Len(sessions), m \in CloneMessages :
        LET r == GoAppend(heap, sessions[k], m)
        IN  /\ heap' = r.heap
            /\ sessions' = [sessions EXCEPT ![k].arr = r.arr, ![k].len = r.len]
            /\ Acted("Append", k, <<>>)
    /\ UNCHANGED <<sessionVars, trimVars, raceVars, retryVars>>

\* one turn of the trim loop on the k-th Client: c.history[:1] when two
\* messages are left, else copy(c.history[1:], c.history[2:]) and the
\* length cut by one
ShaveOldest ==
    /\ prev.n < MaxCloneOps
    /\ \E k \in 1..Len(sessions) :
        LET c == sessions[k]
        IN  /\ c.len >= 2
            /\ heap' = [heap EXCEPT ![c.arr] =
                          [n \in 1..Len(@) |->
                              IF n >= 2 /\ n <= c.len - 1 THEN @[n + 1] ELSE @[n]]]
            /\ sessions' = [sessions EXCEPT ![k].len = c.len - 1]
            /\ Acted("Shave", k, <<>>)
    /\ UNCHANGED <<sessionVars, trimVars, raceVars, retryVars>>

\* billConsumedTokens(n) on the k-th Client
BillClient ==
    /\ prev.n < MaxCloneOps
    /\ \E k \in 1..Len(sessions), n \in UsageTotals :
        /\ sessions' = [sessions EXCEPT
                            ![k].total = billConsumedTokens(sessions[k].total, n)]
        /\ Acted("Bill", k, <<>>)
    /\ UNCHANGED <<sessionVars, trimVars, heap, raceVars, retryVars>>

CloneNext ==
    \/ Clone
    \/ CloneWithConfig
    \/ InstructClient
    \/ AppendMessage
    \/ ShaveOldest
    \/ BillClient

CloneSpec == CloneInit /\ [][CloneNext]_vars

\* ------------------------------------------------------------ the counter
\* The goroutine PromptStream starts bills the exchange while the caller's
\* goroutine may call TotalConsumedTokens.  c.totalConsumedTokens += n is a
\* load and a store; part_002 and gpt.go take c.mu around it and around the
\* read, client.go has no mutex.
MaxCounter == 12     \* no billing starts once the counter reached this
MaxReads == 2        \* calls of TotalConsumedTokens
BillAmounts == {3, 7}

othersOfRace == <<rev, cfg, history, callVars, streamVars, ghostVars, trimVars,
                  cloneVars, retryVars>>

RaceInit ==
    /\ rev \in Revisions
    /\ cfg = NoConfig
    /\ IdleSession
    /\ tIn = <<>> /\ tArg = 0 /\ tFn = "none" /\ tOut = Ok(<<>>)
    /\ NoClones
    /\ NoRace /\ NoRetry

\* the producer reaches the billing with n tokens to add
BillBegin ==
    /\ wpc = "idle"
    /\ totalConsumedTokens < MaxCounter
    /\ \E n \in BillAmounts : wreg' = [n |-> n, v |-> 0]
    /\ wpc' = IF rev = "client" THEN "load" ELSE "lock"
    /\ UNCHANGED <<othersOfRace, totalConsumedTokens, mu, rpc, lastRead>>

\* c.mu.Lock() of billConsumedTokens
BillLock ==
    /\ wpc = "lock"
    /\ mu = "free"
    /\ mu' = "producer"
    /\ wpc' = "load"
    /\ UNCHANGED <<othersOfRace, totalConsumedTokens, wreg, rpc, lastRead>>

\* c.totalConsumedTokens += n: the load
BillLoad ==
    /\ wpc = "load"
    /\ wreg' = [wreg EXCEPT !.v = totalConsumedTokens]
    /\ wpc' = "store"
    /\ UNCHANGED <<othersOfRace, totalConsumedTokens, mu, rpc, lastRead>>

\* c.totalConsumedTokens += n: the store
BillStore ==
    /\ wpc = "store"
    /\ totalConsumedTokens' = wreg.v + wreg.n
    /\ wpc' = IF rev = "client" THEN "idle" ELSE "unlock"
    /\ UNCHANGED <<rev, cfg, history, callVars, streamVars, ghostVars, trimVars,
                   cloneVars, retryVars, mu, wreg, rpc, lastRead>>

\* c.mu.Unlock() of billConsumedTokens
BillUnlock ==
    /\ wpc = "unlock"
    /\ mu' = "free"
    /\ wpc' = "idle"
    /\ UNCHANGED <<othersOfRace, totalConsumedTokens, wreg, rpc, lastRead>>

\* the monitoring goroutine calls TotalConsumedTokens
ReadBegin ==
    /\ rpc = "idle"
    /\ lastRead.n < MaxReads
    /\ rpc' = IF rev = "client" THEN "read" ELSE "lock"
    /\ UNCHANGED <<othersOfRace, totalConsumedTokens, mu, wpc, wreg, lastRead>>

\* c.mu.Lock() of TotalConsumedTokens
ReadLock ==
    /\ rpc = "lock"
    /\ mu = "free"
    /\ mu' = "monitor"
    /\ rpc' = "read"
    /\ UNCHANGED <<othersOfRace, totalConsumedTokens, wpc, wreg, lastRead>>

\* return c.totalConsumedTokens.  A read between the producer's load and
\* its store is a data race: it may yield the counter before or after the
\* store.
ReadCounter ==
    /\ rpc = "read"
    /\ \E value \in IF wpc = "store"
                    THEN {totalConsumedTokens, wreg.v + wreg.n}
                    ELSE {totalConsumedTokens} :
        lastRead' = [value |-> value, racing |-> wpc = "store",
                     n |-> lastRead.n + 1]
    /\ rpc' = IF rev = "client" THEN "idle" ELSE "unlock"
    /\ UNCHANGED <<othersOfRace, totalConsumedTokens, mu, wpc, wreg>>

\* the deferred c.mu.Unlock() of TotalConsumedTokens
ReadUnlock ==
    /\ rpc = "unlock"
    /\ mu' = "free"
    /\ rpc' = "idle"
    /\ UNCHANGED <<othersOfRace, totalConsumedTokens, wpc, wreg, lastRead>>

RaceNext ==
    \/ BillBegin
    \/ BillLock
    \/ BillLoad
    \/ BillStore
    \/ BillUnlock
    \/ ReadBegin
    \/ ReadLock
    \/ ReadCounter
    \/ ReadUnlock

RaceSpec == RaceInit /\ [][RaceNext]_vars

\* ------------------------------------------------------- the retry handler
\* time.Duration is an int64 of nanoseconds.  A 64-bit word is held as four
\* 16-bit limbs, the lowest first; the operations wrap as the machine's do.
Limb == 65536
Word(n) == <<n % Limb, (n \div Limb) % Limb, 0, 0>>
Zero64 == Word(0)
Second == <<51712, 15258, 0, 0>>     \* time.Second: 1000000000

IsNeg(x) == x[4] >= Limb \div 2

Add64(x, y) ==
    LET s1 == x[1] + y[1]
        s2 == x[2] + y[2] + s1 \div Limb
        s3 == x[3] + y[3] + s2 \div Limb
        s4 == x[4] + y[4] + s3 \div Limb
    IN  <<s1 % Limb, s2 % Limb, s3 % Limb, s4 % Limb>>

\* -x: the complement plus one
Neg64(x) ==
    Add64(<<Limb - 1 - x[1], Limb - 1 - x[2], Limb - 1 - x[3], Limb - 1 - x[4]>>,
          Word(1))

Sub64(x, y) == Add64(x, Neg64(y))

\* x << k; every bit is shifted out when k >= 64
RECURSIVE Shl(_, _)
Shl(x, k) ==
    IF k = 0 THEN x
    ELSE IF k >= 16 THEN Shl(<<0, x[1], x[2], x[3]>>, k - 16)   \* a whole limb
    ELSE LET y == Shl(x, k - 1) IN Add64(y, y)

\* x >> 1 of the unsigned word
Shr1(x) ==
    <<x[1] \div 2 + (x[2] % 2) * (Limb \div 2),
      x[2] \div 2 + (x[3] % 2) * (Limb \div 2),
      x[3] \div 2 + (x[4] % 2) * (Limb \div 2),
      x[4] \div 2>>

\* x / 2 of Go: the quotient truncated toward zero
Half(x) == IF IsNeg(x) THEN Neg64(Shr1(Neg64(x))) ELSE Shr1(x)

\* x < y of two int64: by the sign, then limb by limb from the highest
Less(x, y) ==
    IF IsNeg(x) # IsNeg(y) THEN IsNeg(x)
    ELSE \/ x[4] < y[4]
         \/ x[4] = y[4] /\ x[3] < y[3]
         \/ x[4] = y[4] /\ x[3] = y[3] /\ x[2] < y[2]
         \/ x[4] = y[4] /\ x[3] = y[3] /\ x[2] = y[2] /\ x[1] < y[1]
Min64(x, y) == IF Less(y, x) THEN y ELSE x
Abs64(x) == IF IsNeg(x) THEN Neg64(x) ELSE x

\* n seconds, n a power of two
RECURSIVE Seconds(_)
Seconds(n) == IF n = 1 THEN Second ELSE Shl(Seconds(n \div 2), 1)

\* what rand.Int draws for newRnd: the model draws the ends of the range
Picks == {"lowest", "highest"}

\* newRnd(cap): rand.Int(rand.Reader, big.NewInt(cap-1)) is uniform in
\* [0, cap-1) and panics when cap-1 <= 0
newRnd(cap, pick) ==
    LET max == Sub64(cap, Word(1))
    IN  IF IsNeg(max) \/ max = Zero64
        THEN [panicked |-> TRUE, n |-> Zero64]
        ELSE [panicked |-> FALSE,
              n |-> IF pick = "lowest" THEN Zero64 ELSE Sub64(max, Word(1))]

\* mutant: backoff without the test of maxDelay == 0
backoff_untested(maxD, retryCount, pick) ==
    LET t == Shl(Second, retryCount)
        center == Half(Min64(t, maxD))
        jitter == newRnd(center, pick)
        sleepTime == Abs64(Add64(center, jitter.n))
    IN  [i |-> retryCount, slept |-> ~jitter.panicked,
         panicked |-> jitter.panicked, center |-> center,
         d |-> IF Less(maxD, sleepTime) THEN maxD ELSE sleepTime]

\* retryHandler.backoff(retryCount): t is (1 << retryCount) * time.Second in
\* int64; the float64 of math.Min and math.Abs hold the drawn values exactly
backoff(maxD, retryCount, pick) ==
    IF maxD = Zero64
    THEN [i |-> retryCount, slept |-> FALSE, panicked |-> FALSE,
          center |-> Zero64, d |-> Zero64]
    ELSE LET t == Shl(Second, retryCount)
             center == Half(Min64(t, maxD))
             jitter == newRnd(center, pick)
             sleepTime == Abs64(Add64(center, jitter.n))
         IN  [i |-> retryCount, slept |-> ~jitter.panicked,
              panicked |-> jitter.panicked, center |-> center,
              d |-> IF Less(maxD, sleepTime) THEN maxD ELSE sleepTime]

LongRetry == 35      \* the largest maxRetry drawn
MaxDelays == {Zero64, Word(1), Word(3), Word(4), Seconds(4), Seconds(128)}
MaxRetries == {0, 2, LongRetry}

othersOfRetry == <<sessionVars, trimVars, cloneVars, raceVars>>

\* newRetryHandler(maxDelay, maxRetry) and the entry of Do
RetryInit ==
    /\ rev = "part002"
    /\ cfg = NoConfig
    /\ IdleSession
    /\ tIn = <<>> /\ tArg = 0 /\ tFn = "none" /\ tOut = Ok(<<>>)
    /\ NoClones
    /\ NoRace
    /\ \E maxD \in MaxDelays, maxR \in MaxRetries :
        rh = [maxDelay |-> maxD, maxRetry |-> maxR, pc |-> "do", i |-> 0,
              calls |-> 0, failed |-> 0, sleeps |-> 0, last |-> NoBackoff]

\* Do: err := c(), the return on nil and the test of i < b.maxRetry
RetryInvoke ==
    /\ rh.pc = "do"
    /\ \E e \in RemoteErrors \cup {NilErr} :
        rh' = [rh EXCEPT !.calls = @ + 1,
                         !.failed = IF e = NilErr THEN @ ELSE @ + 1,
                         !.pc = DoAfter(e, rh.i, rh.maxRetry).pc,
                         !.i = DoAfter(e, rh.i, rh.maxRetry).i]
    /\ UNCHANGED othersOfRetry

\* Do: b.backoff(i), then i++ and the loop's test
RetryBackoff ==
    /\ rh.pc = "backoff"
    /\ \E pick \in Picks :
        LET r == backoff(rh.maxDelay, rh.i, pick)
        IN  rh' = IF r.panicked
                  THEN [rh EXCEPT !.pc = "panicked", !.last = r]
                  ELSE [rh EXCEPT !.pc = IF rh.i + 1 < rh.maxRetry + 1
                                         THEN "do" ELSE "afterDo",
                                  !.i = @ + 1,
                                  !.sleeps = IF r.slept THEN @ + 1 ELSE @,
                                  !.last = r]
    /\ UNCHANGED othersOfRetry

RetryNext ==
    \/ RetryInvoke
    \/ RetryBackoff

RetrySpec == RetryInit /\ [][RetryNext]_vars


\* ------------------------------------------------------------------ claims
\* the messages after position 0
NonSystem(h) == SubSeq(h, 2, Len(h))

TokenTrims == {"trimHistoryToMatchTokenLimit", "trimHistoryToMatchTokenLimit_p2"}
AllTrims == TokenTrims \cup
    {"trimHistoryToMatchMessageLimit", "trimHistory", "trimHistory_p2"}

\* C2: a transcript with a system message at position 0 has the same
\* message at position 0 after any trim, whatever the limits, also when the
\* trim ends in a panic.
C2_SystemMessageKept ==
    (tFn \in AllTrims /\ Len(tIn) >= 1 /\ tIn[1].Role = RoleSystem)
        => (Len(tOut.h) >= 1 /\ tOut.h[1] = tIn[1])

\* C2 witness: a trim that deleted messages of a transcript led by a system
\* message.
C2_Witness ==
    /\ tFn = "trimHistory"
    /\ Len(tIn) = 3 /\ tIn[1].Role = RoleSystem
    /\ ~tOut.panicked
    /\ Len(tOut.h) = 1

\* C3: after a token-budget trim with limit L the serialized messages after
\* position 0 count at most L tokens, or no message is left after position 0.
C3_TokenBudgetMet ==
    tFn \in TokenTrims
        => \/ CountTokens(ToString(NonSystem(tOut.h))) <= tArg
           \/ Len(tOut.h) <= 1

\* C3 witness: a trim that deleted the oldest message and kept a later one,
\* within the limit.
C3_Witness ==
    /\ tFn = "trimHistoryToMatchTokenLimit"
    /\ Len(tIn) = 3 /\ Len(tOut.h) = 2
    /\ tOut.h[2] = tIn[3]
    /\ CountTokens(ToString(NonSystem(tOut.h))) <= tArg

Min(a, b) == IF a <= b THEN a ELSE b

\* C4: after a message-count trim with limit M the transcript holds exactly
\* min(M, priorCount) messages after position 0, the most recent ones, in
\* their order.
C4_MessageCountExact ==
    tFn = "trimHistoryToMatchMessageLimit" /\ Len(tIn) >= 1
        => LET prior == NonSystem(tIn)
               n == Min(tArg, Len(prior))
           IN  /\ ~tOut.panicked
               /\ NonSystem(tOut.h) = SubSeq(prior, Len(prior) - n + 1, Len(prior))

\* ---------------------------------------------------------- session claims
\* the last call on the session was a Prompt, or a PromptStream, and is over
PromptDone == pc = "idle" /\ ret.op = "Prompt"
StreamDone == pc = "idle" /\ ret.op = "PromptStream"

\* what a blocking Prompt may return once an invocation succeeded: the
\* text, or the verdict of the output moderation
AfterSuccess(mayReject) ==
    \/ ret.err = NilErr
    \/ /\ mayReject
       /\ cfg.moderateResponse
       /\ ret.err \in {ErrModerationModelOutput, ErrModerationCall}

\* retryHandler.Do with maxRetry = N >= 0: no invocation follows a success,
\* at most N+1 are made; when Prompt returns after N+1 failures it returns
\* the last error, after a success on invocation K it has made K invocations
RetryContract(mayReject) ==
    /\ (pc # "panicked" /\ maxRetry >= 0) =>
        /\ calls <= maxRetry + 1
        /\ failed <= calls /\ calls <= failed + 1
        /\ calls = failed + 1 => lastErr = NilErr
    /\ (PromptDone /\ modIn \in {"none", "pass"} /\ maxRetry >= 0) =>
        /\ calls >= 1
        /\ calls = failed =>
            /\ calls = maxRetry + 1
            /\ lastErr # NilErr
            /\ ret.err = lastErr
        /\ calls = failed + 1 => AfterSuccess(mayReject)

\* C1 (as stated): maxRetries = N >= 0: N+1 invocations when every one
\* fails and Prompt returns the last error; K invocations when the first
\* success is the K-th, none after it, and Prompt returns no error.
C1_NoErrorAfterSuccess == RetryContract(FALSE)

\* C1 (amended): the same counts and the same error after N+1 failures; after
\* a success Prompt returns no error unless the output moderation is enabled
\* and rejects the reply or fails.
C1_RetryCount == RetryContract(TRUE)

\* C1 witness: maxRetries = 2, the first invocation failed and the second
\* succeeded: two invocations, one sleep, the reply returned without error.
C1_Witness ==
    /\ PromptDone
    /\ rev = "part002" /\ cfg.maxRetries = 2
    /\ calls = 2 /\ failed = 1 /\ sleeps = 1
    /\ ret.err = NilErr /\ ret.text = <<"b">>

\* C5: every request built by Prompt or PromptStream for a known model
\* carries a transcript, position 0 included, of at most ContextLength tokens.
C5_RequestWithinContext ==
    (request # <<>> /\ getModel(cfg.model) # NIL)
        => CountTokens(ToString(request)) <= ContextLength(getModel(cfg.model))

RECURSIVE Chunks(_)
\* the concatenation of the chunks stream.Recv returned, in arrival order
Chunks(r) == IF r = <<>> THEN <<>> ELSE Head(r).Chunk \o Chunks(Tail(r))

\* stream.Recv returned n >= 0 chunks and then io.EOF
CleanEnd == recvd # <<>> /\ recvd[Len(recvd)].Err = EOF
\* stream.Recv returned one or more chunks and then a transport error
BrokenEnd ==
    /\ Len(recvd) >= 2
    /\ recvd[Len(recvd)].Err \in StreamErrors

\* C6 (as stated): chunks c1..cn, then a clean end of stream, the
\* concatenation non-empty: exactly one assistant message is appended, its
\* content c1+...+cn, dropped chunks included.
C6_OneAssistantMessage ==
    (StreamDone /\ CleanEnd /\ Chunks(recvd) # <<>>)
        => history = Append(hReq, Message(RoleAssistant, Chunks(recvd)))

\* C6 (amended): the same, when assistant replies are memorized; when
\* memorizeAssistantMessages is off (part_002, gpt.go) nothing is appended.
C6_StreamCommit ==
    (StreamDone /\ CleanEnd /\ Chunks(recvd) # <<>>)
        => history = IF cfg.memorizeAssistantMessages
                     THEN Append(hReq, Message(RoleAssistant, Chunks(recvd)))
                     ELSE hReq

\* C6 witness: two chunks and io.EOF were received, the context ended before
\* the second chunk was taken, and the assistant message holds both chunks.
C6_Witness ==
    /\ StreamDone /\ CleanEnd
    /\ rev = "client" /\ ctxDone
    /\ Len(recvd) = 3 /\ Len(ch) = 2
    /\ history[Len(history)] = Message(RoleAssistant, <<"a", "b">>)

\* C7: one or more chunks, then a transport error: the error is forwarded
\* to the consumer and no assistant message is appended.
C7_PartialDiscarded ==
    (StreamDone /\ BrokenEnd)
        => /\ ch # <<>> /\ ch[Len(ch)].Err = recvd[Len(recvd)].Err
           /\ history = hReq

\* C8: input moderation on and the prompt flagged: no invocation and no
\* remote call is made, transcript and counter stay as they were at the call,
\* Prompt returns ErrModerationUserInput, PromptStream forwards it as its
\* only item.
C8_FlaggedInputRejected ==
    modIn = "flagged" =>
        /\ calls = 0 /\ remote = 0
        /\ history = h0 /\ totalConsumedTokens = t0
        /\ Len(ch) <= 1
        /\ PromptDone => ret = Return("Prompt", <<>>, ErrModerationUserInput)
        /\ StreamDone => ch = <<ErrItem(ErrModerationUserInput)>>

\* C8 witness: a Prompt on a session with a transcript was flagged and
\* returned ErrModerationUserInput.
C8_Witness ==
    /\ PromptDone /\ modIn = "flagged"
    /\ ret.err = ErrModerationUserInput
    /\ history # <<>> /\ history = h0

\* C9: output moderation on and the reply flagged: Prompt returns
\* ErrModerationModelOutput and the reply was neither appended nor billed.
C9_GateBeforeCommit ==
    (PromptDone /\ ret.err = ErrModerationModelOutput)
        => /\ history = hReq
           /\ totalConsumedTokens = t0
           /\ billed = <<>>

\* C10: after a successful Prompt with a non-empty reply, replies being
\* memorized, the last message is the assistant message with the returned
\* text and the transcript so updated was billed.
C10_ReplyCommitted ==
    (PromptDone /\ ret.err = NilErr /\ ret.text # <<>>
                /\ cfg.memorizeAssistantMessages)
        => /\ history # <<>>
           /\ history[Len(history)] = Message(RoleAssistant, ret.text)
           /\ billed # <<>> /\ billed[Len(billed)].h = history

\* the positions of the system messages of a transcript
SystemAt(h) == {n \in 1..Len(h) : h[n].Role = RoleSystem}

\* C11: between calls the transcript of a session holds at most one system
\* message, and a system message is at position 0.
C11_OneSystemMessage ==
    pc = "idle" => SystemAt(history) \subseteq {1}

\* trimHistory was applied with both limits of the caller enabled
BothLimits_p2 ==
    /\ tFn = "trimHistory_p2"
    /\ tArg.limitMemoryByToken /\ tArg.limitMemoryByMessage
BothLimits ==
    /\ tFn = "trimHistory"
    /\ tArg.memoryTokenSize # NilPtr /\ tArg.memoryMessageSize # NilPtr
    /\ getModel(tArg.model) # NIL
    /\ Len(tIn) >= 1

\* part_002: with both limits on, a transcript within the token limit is
\* left as it is
TokenLimitOnly_p2 ==
    (BothLimits_p2 /\ CountTokens(ToString(tIn)) <= tArg.memoryTokenSize)
        => tOut = Ok(tIn)

IsClone == prev.op \in {"Clone", "CloneWithConfig"}
NewClient == sessions[Len(sessions)]

SetIn(config) ==
    (IF config.Model # "" THEN {"model"} ELSE {})
    \cup (IF config.ApiTimeout > 0 THEN {"apiTimeout"} ELSE {})
    \cup (IF config.Temperature # NilPtr THEN {"temperature"} ELSE {})
    \cup (IF config.MemoryMessageSize # NilPtr THEN {"memoryMessageSize"} ELSE {})
    \cup (IF config.MemoryTokenSize # NilPtr THEN {"memoryTokenSize"} ELSE {})
    \cup (IF config.ModeratePromptMessage # NilPtr
          THEN {"moderatePromptMessage"} ELSE {})
    \cup (IF config.ModerateResponse # NilPtr THEN {"moderateResponse"} ELSE {})
    \cup (IF rev = "client"
          THEN (IF config.TopP # NilPtr THEN {"topP"} ELSE {})
               \cup (IF config.MaxTokens # 0 THEN {"maxTokens"} ELSE {})
               \cup (IF config.PresencePenalty # "0"
                     THEN {"presencePenalty"} ELSE {})
               \cup (IF config.FrequencyPenalty # "0"
                     THEN {"frequencyPenalty"} ELSE {})
               \cup (IF config.LogitBias # <<>> THEN {"logitBias"} ELSE {})
          ELSE (IF config.LimitMemoryByToken # NilPtr
                THEN {"limitMemoryByToken"} ELSE {})
               \cup (IF config.LimitMemoryByMessage # NilPtr
                     THEN {"limitMemoryByMessage"} ELSE {})
               \cup (IF config.MemorizeAssistantMessages # NilPtr
                     THEN {"memorizeAssistantMessages"} ELSE {})
               \cup (IF config.MaxRetries # NilPtr THEN {"maxRetries"} ELSE {})
               \cup (IF config.MaxRetryDelay # NilPtr
                     THEN {"maxRetryDelay"} ELSE {}))

\* C14: after CloneWithConfig(config) every configuration field that
\* config does not set has in the clone the value it has in the source.
C14_CloneInheritsConfig ==
    prev.op = "CloneWithConfig" =>
        \A f \in (DOMAIN NewClient.fields) \ SetIn(prev.config) :
            NewClient.fields[f] = prev.views[prev.actor].fields[f]

\* C15: client.go Instruct(text) on a session with a known model: when
\* CountTokens(text) exceeds MaxInstructionLength it returns an error and
\* the transcript is as it was; else it returns no error, position 0 holds
\* the system message with content text and the other messages are as they
\* were.
C15_InstructChecksLength ==
    (pc = "idle" /\ ret.op = "Instruct" /\ rev = "client") =>
        IF CountTokens(question) > MaxInstructionLength(getModel(cfg.model))
        THEN ret.err # NilErr /\ history = h0
        ELSE /\ ret.err = NilErr
             /\ history # <<>>
             /\ history[1] = Message(RoleSystem, question)
             /\ NonSystem(history) = NonSystem(h0)

\* C15 witness: an instruction longer than MaxInstructionLength was refused
\* on a session that has a transcript.
C15_Witness ==
    /\ pc = "idle" /\ ret.op = "Instruct" /\ rev = "client"
    /\ CountTokens(question) > MaxInstructionLength(getModel(cfg.model))
    /\ ret.err # NilErr
    /\ Len(history) >= 2 /\ history = h0

\* C16: InstructWithLengthFix ends without a panic for every instruction,
\* and the instruction it stores counts at most MaxInstructionLength tokens.
C16_LengthFixFits ==
    tFn = "InstructWithLengthFix" =>
        /\ ~tOut.panicked
        /\ TokensOf(tOut.len, tArg.per) <= MaxInstructionLength("gpt-4")

\* the tokens the counting rule gives a transcript's first k messages:
\* perMessage + tokens(content) + tokens(role) + tokens(name) for each, and
\* perName more for each message that has a name
RECURSIVE RuleTokens(_, _, _, _)
RuleTokens(h, k, perMessage, perName) ==
    IF k = 0 THEN 0
    ELSE RuleTokens(h, k - 1, perMessage, perName)
         + perMessage + CountTokens(h[k].Content) + CountTokens(<<h[k].Role>>)
         + (IF h[k].Name # <<>> THEN CountTokens(h[k].Name) + perName ELSE 0)

RECURSIVE SumBilled(_, _)
SumBilled(bills, k) == IF k = 0 THEN 0 ELSE SumBilled(bills, k - 1) + bills[k].n

InFamilies(model) == model \in ContainsGpt35 \cup ContainsGpt4

StreamFailed ==
    /\ StreamDone
    /\ recvd # <<>>
    /\ recvd[Len(recvd)].Err \in StreamErrors

\* C18: the consumption counter never decreases during a call, and a call
\* that is not a completed exchange leaves it as it was: Instruct,
\* InstructWithLengthFix, ImportHistory, a Prompt that returns an error
\* (failed attempts, a moderation rejection) and a PromptStream whose stream
\* failed.
C18_CounterOnlyBilled ==
    /\ totalConsumedTokens >= t0
    /\ (pc = "idle" /\ ret.op \in {"Instruct", "InstructWithLengthFix", "ImportHistory"})
           => totalConsumedTokens = t0
    /\ (PromptDone /\ ret.err # NilErr) => totalConsumedTokens = t0
    /\ StreamFailed => totalConsumedTokens = t0

\* C19: the counter is accessed under exclusive access: TotalConsumedTokens
\* never reads the counter while the billing of the PromptStream producer is
\* between its load and its store.
C19_ExclusiveAccess ==
    /\ ~lastRead.racing
    /\ ~(wpc = "store" /\ rpc = "read")

\* C20: on a client.go session whose model is not in the registry no call
\* panics, every call that returns does so with an error, and the remote
\* completion call is made at most once.
C20_UnknownModelSurfaced ==
    (rev = "client" /\ getModel(cfg.model) = NIL) =>
        /\ pc # "panicked"
        /\ (pc = "idle" /\ ret # NoReturn) => ret.err # NilErr
        /\ remote <= 1

\* C21: part_002 and gpt.go, the model outside the gpt35 and gpt4 families:
\* no call bills, the counter stays as it was; a Prompt whose invocation
\* succeeded returns the reply without error and a non-empty reply is
\* appended as the assistant message, and so is the text of a stream that
\* ended cleanly.
C21_UnknownFamilyNotBilled ==
    (rev # "client" /\ ~InFamilies(cfg.model)) =>
        /\ totalConsumedTokens = t0
        /\ billed = <<>>
        /\ (PromptDone /\ calls = failed + 1) =>
            /\ ret = Return("Prompt", response, NilErr)
            /\ (response # <<>> /\ cfg.memorizeAssistantMessages)
                  => history = Append(hReq, Message(RoleAssistant, response))
        /\ (StreamDone /\ CleanEnd /\ Chunks(recvd) # <<>>
                       /\ cfg.memorizeAssistantMessages)
              => history = Append(hReq, Message(RoleAssistant, Chunks(recvd)))

\* C21 witness: a part_002 session on an unknown model returned the reply
\* "b", appended it to a transcript of an earlier exchange, and billed nothing
C21_Witness ==
    /\ rev = "part002" /\ ~InFamilies(cfg.model)
    /\ PromptDone /\ ret = Return("Prompt", <<"b">>, NilErr)
    /\ Len(h0) >= 2
    /\ history = Append(hReq, Message(RoleAssistant, <<"b">>))
    /\ totalConsumedTokens = 0

\* C22: maxDelay = 0: backoff returns without a sleep for every attempt
\* index, and the next invocation follows the failed one.
C22_NoSleepWithoutDelay ==
    rh.maxDelay = Zero64 =>
        /\ rh.sleeps = 0
        /\ ~rh.last.slept
        /\ rh.pc # "panicked"
        /\ rh.pc = "afterDo" =>
              (rh.calls = rh.failed + 1 \/ rh.calls = rh.maxRetry + 1)

\* C22 witness: maxDelay = 0 and maxRetry = 2, three failed invocations and
\* two calls of backoff, none of which slept
C22_Witness ==
    /\ rh.maxDelay = Zero64 /\ rh.maxRetry = 2
    /\ rh.pc = "afterDo"
    /\ rh.calls = 3 /\ rh.failed = 3
    /\ rh.last.i = 1 /\ ~rh.last.slept
    /\ rh.sleeps = 0

\* the messages of a transcript that are not system messages, in order
WithoutSystem(h) == SelectSeq(h, LAMBDA m : m.Role # RoleSystem)

\* C23: ExportHistory(false) completes and returns the transcript's
\* non-system messages in order, ExportHistory(true) returns the whole
\* transcript, for every transcript, the empty one and one that starts with
\* a user message included.
C23_ExportHistory ==
    tFn = "ExportHistory" =>
        /\ ~tOut.panicked
        /\ tOut.h = IF tArg THEN tIn ELSE WithoutSystem(tIn)

\* a PromptStream call whose CreateChatCompletionStream failed
OpenFailed ==
    /\ StreamDone
    /\ ch # <<>>
    /\ \E e \in StreamErrors :
        ch[Len(ch)] = ErrItem(Wrap("failed to create chat completion stream", e))

\* C24: when opening the remote stream fails in PromptStream the call is
\* retried: the error reaches the consumer after maxRetry + 1 attempts to
\* open the stream.
C24_StreamOpenRetried ==
    OpenFailed => remote = maxRetry + 1

RECURSIVE CountOf(_, _)
\* how many messages of h equal m
CountOf(h, m) ==
    IF h = <<>> THEN 0
    ELSE (IF Head(h) = m THEN 1 ELSE 0) + CountOf(Tail(h), m)

\* a Prompt that is over after every invocation failed
AllFailed == PromptDone /\ calls >= 1 /\ calls = failed

\* C25: a Prompt whose every attempt failed returns the last error, has
\* appended no assistant message and has left the counter as it was.
C25_NoCommitOnFailure ==
    AllFailed =>
        /\ calls = maxRetry + 1
        /\ ret.err # NilErr /\ ret.err = lastErr /\ ret.text = <<>>
        /\ totalConsumedTokens = t0
        /\ billed = <<>>
        /\ \A r \in Replies :
            CountOf(history, Message(RoleAssistant, r))
                <= CountOf(h0, Message(RoleAssistant, r))

\* C25 witness: part_002 with maxRetries = 2, three failed invocations on a
\* transcript that held an exchange, the counter as it was
C25_Witness ==
    /\ AllFailed
    /\ rev = "part002" /\ calls = 3
    /\ Len(h0) >= 2
    /\ ret.err = lastErr /\ lastErr \in {Wrap("failed to create chat completion", e) : e \in RemoteErrors}
    /\ totalConsumedTokens = t0

\* the session has no memory limit set
NoLimits ==
    IF rev = "client"
    THEN cfg.memoryTokenSize = NilPtr /\ cfg.memoryMessageSize = NilPtr
    ELSE ~cfg.limitMemoryByToken /\ ~cfg.limitMemoryByMessage

\* C26: a Prompt call appends its prompt as a user message once, however
\* many invocations the retry handler makes: when the call is over the
\* transcript holds one user message more than the transcript it started on
\* (the trims aside: no limit is set and the prompt is short).
C26_PromptAppendedOnce ==
    (PromptDone /\ calls >= 1 /\ cfg.model = "gpt-4" /\ NoLimits
                /\ question = <<"a">>) =>
        CountOf(history, Message(RoleUser, question))
            = CountOf(h0, Message(RoleUser, question)) + 1

\* the transcript after the k oldest messages behind position 0 were deleted
Shaved(h, k) == SubSeq(h, 1, 1) \o SubSeq(h, k + 2, Len(h))

\* C27: on a transcript of one or more messages the token trim ends without
\* a panic for every limit; it deletes at most the messages after position 0
\* and, measuring again after each deletion, deletes a message only when the
\* messages left after position 0 were still above the limit.
C27_TokenTrimTerminates ==
    (tFn \in TokenTrims /\ Len(tIn) >= 1) =>
        /\ ~tOut.panicked
        /\ Len(tOut.h) >= 1
        /\ \A k \in 0..(Len(tIn) - Len(tOut.h) - 1) :
            CountTokens(ToString(NonSystem(Shaved(tIn, k)))) > tArg

\* s is a suffix of t
IsSuffix(s, t) ==
    /\ Len(s) <= Len(t)
    /\ s = SubSeq(t, Len(t) - Len(s) + 1, Len(t))

\* C28: the non-system messages left by a trim are a suffix, in the same
\* order, of the non-system messages before it, also when position 0 holds
\* no system message.
C28_OldestEvictedFirst ==
    (tFn \in AllTrims /\ ~tOut.panicked) =>
        IsSuffix(WithoutSystem(tOut.h), WithoutSystem(tIn))

\* C29: with maxDelay > 0 every call of backoff the loop makes ends without
\* a panic and sleeps d with center <= d <= maxDelay.
C29_BackoffWithinBounds ==
    (rh.maxDelay # Zero64 /\ rh.last.i >= 0) =>
        /\ ~rh.last.panicked
        /\ rh.last.slept
        /\ ~Less(rh.last.d, rh.last.center)
        /\ ~Less(rh.maxDelay, rh.last.d)

C32_CleanEndNoError ==
    (StreamDone /\ CleanEnd) => \A k \in 1..Len(ch) : ch[k].Err = NilErr

\* the items of a channel's traffic that carry an error
ErrsAt(c) == {k \in 1..Len(c) : c[k].Err # NilErr}

\* s is a subsequence of t
RECURSIVE IsSubSeq(_, _)
IsSubSeq(s, t) ==
    IF s = <<>> THEN TRUE
    ELSE IF t = <<>> THEN FALSE
    ELSE IF Head(s) = Head(t) THEN IsSubSeq(Tail(s), Tail(t))
    ELSE IsSubSeq(s, Tail(t))

\* C33: the channel carries chunk items in the order the chunks arrived
\* from the remote call, then at most one item with an Err, which is the
\* last item; nothing is sent after the close, and the channel is closed
\* when the run is over.
C33_ChannelProtocol ==
    /\ ErrsAt(ch) \subseteq {Len(ch)}
    /\ IsSubSeq(SelectSeq(ch, LAMBDA x : x.Err = NilErr),
                SelectSeq(recvd, LAMBDA x : x.Err = NilErr))
    /\ chClosed => pc \notin {"s_create", "s_recv", "s_forward", "s_senderr",
                              "s_sendfinal", "s_post", "s_close"}
    /\ StreamDone => chClosed

\* C33 witness: two chunks were delivered in order, then the transport
\* error, and the channel is closed
C33_Witness ==
    /\ StreamDone /\ chClosed
    /\ Len(ch) = 3
    /\ ch[1] = ChunkItem(ChunkAt(1)) /\ ch[2] = ChunkItem(ChunkAt(2))
    /\ ch[3].Err \in StreamErrors

\* what the commit of a stream run makes of the transcript and the counter
\* the run found after its request was built
Committed ==
    CASE rev = "client" -> postStreamResponse(hReq, t0, sb)
      [] rev = "part002" -> postResponse_p2(hReq, t0, sb, cfg)
      [] rev = "gpt" -> IF Len(sb) = 0 THEN Session(hReq, t0, <<>>)
                        ELSE postResponse_gpt(hReq, t0, sb, cfg)

\* C34: the producer commits (assistant append and billing) before it closes
\* the channel: the step that closes the channel is the goroutine's last and
\* leaves transcript and counter alone, no step of the run changes them once
\* the channel is closed, and when the channel is closed after the receive
\* loop the transcript and the counter are those of the finished exchange.
C34_CommitBeforeClose ==
    [][/\ (~chClosed /\ chClosed') =>
            /\ pc = "s_close" /\ pc' = "idle"
            /\ history' = history
            /\ totalConsumedTokens' = totalConsumedTokens
            /\ recvd # <<>> =>
                  /\ history = Committed.h
                  /\ totalConsumedTokens = Committed.total
       /\ (chClosed /\ ~StartCall) =>
            UNCHANGED <<history, totalConsumedTokens>>]_vars

C34_Witness ==
    /\ StreamDone /\ chClosed
    /\ sb = <<"a", "b">>
    /\ history = Append(hReq, Message(RoleAssistant, sb))
    /\ totalConsumedTokens > t0


\* C35: a Prompt that passed the input moderation and returned has invoked
\* the remote completion call at least once, whatever MaxRetries the
\* ClientConfig gave; it returns no empty reply with a nil error without one.
C35_RemoteCalledOnce ==
    (PromptDone /\ modIn \in {"none", "pass"}) => remote >= 1


\* C36: Instruct and InstructWithLengthFix overwrite or remove no user or
\* assistant message: every such message of the transcript at the call is at
\* its position, or one further on, when the call has returned; so a
\* non-system message at position 0 is still in the transcript.
C36_InstructKeepsMessages ==
    (pc = "idle" /\ ret.op \in {"Instruct", "InstructWithLengthFix"})
        => \A k \in 1..Len(h0) :
              h0[k].Role # RoleSystem
                  => \E j \in {k, k + 1} : j <= Len(history) /\ history[j] = h0[k]


\* a stream run whose request was built and whose accumulated text is empty
EmptyStreamRun ==
    /\ StreamDone
    /\ modIn \in {"none", "pass"}
    /\ sb = <<>>

\* C37 as stated: a stream run that ends with an empty accumulated text
\* leaves the counter as it was and the transcript as it was before the call
\* plus the user message.
C37_OnlyUserMessage ==
    EmptyStreamRun =>
        /\ totalConsumedTokens = t0
        /\ history = Append(h0, Message(RoleUser, question))

\* C37: a stream run that ends with an empty accumulated text commits
\* nothing: nothing is billed, the counter is as it was at the call, and the
\* transcript is the one the request was built with (the transcript at the
\* call with the user message appended, then trimmed), with no assistant
\* message appended.
C37_EmptyTextNoCommit ==
    EmptyStreamRun =>
        /\ totalConsumedTokens = t0
        /\ billed = <<>>
        /\ history = IF rev = "client"
                      THEN newChatCompletionRequest(h0, question, cfg).h
                      ELSE newChatCompletionRequest_p2(h0, question, cfg).h

C37_Witness ==
    /\ EmptyStreamRun
    /\ recvd = <<ErrItem(EOF)>>
    /\ h0 # <<>>
    /\ history = Append(h0, Message(RoleUser, question))


\* C38: ImportHistory(h) on any session of a registered model, a fresh one
\* with an empty transcript and an empty h included, completes without
\* failure and leaves the transcript equal to the trim of the previous
\* transcript followed by h.
C38_ImportCompletes ==
    [][(ImportHistory /\ (rev = "client" => getModel(cfg.model) # NIL))
          => /\ pc' = "idle"
             /\ ret' = Return("ImportHistory", <<>>, NilErr)
             /\ \E imported \in Imports :
                   history' = IF rev = "client"
                              THEN trimHistory(history \o imported, cfg).h
                              ELSE trimHistory_p2(history \o imported, cfg).h]_vars


\* the producer goroutine of PromptStream is running
Producing ==
    pc \in {"s_create", "s_recv", "s_forward", "s_senderr", "s_sendfinal",
            "s_post", "s_close"}

\* C31: once PromptStream has started, the producer eventually finishes (it
\* stops receiving, posts and closes the channel), whether or not the
\* consumer keeps receiving: no forward, of a chunk or of an error item,
\* stalls it forever.
C31_ProducerFinishes == Producing ~> (pc = "idle" /\ chClosed)


=============================================================================
